---------------------------- MODULE Spec2Model ----------------------------
(***************************************************************************)
(* Scotland Yard (deepboliya/ScotlandYard): the board, the exhaustive      *)
(* adversarial solver (solver/exhaustive_solver.py), the policy strategies *)
(* (strategies/policy_strategy.py), the turn engine (game/engine.py) and   *)
(* the start validation of main.py, as one state machine.                  *)
(*                                                                         *)
(* Python tuples and lists are sequences; a detective index idx of the     *)
(* code (0-based) is position idx + 1 of the sequence.  A dict is a        *)
(* function whose DOMAIN is its key set; the empty dict is <<>>.           *)
(***************************************************************************)
EXTENDS Integers, Sequences, FiniteSets, TLC

(***************************************************************************)
(* Bounds of the model.                                                    *)
(***************************************************************************)
\* the largest --max-rounds given on the command line
MaxRounds == 3
\* node ids given as start positions range over 1..MaxNode
MaxNode == 5
\* the most detectives given as start positions
MaxDetectives == 2

\* None among strings; a value of another type that may be None is <<>> for
\* None and <<v>> for v
None == "None"

(***************************************************************************)
(* Python built-ins.                                                       *)
(***************************************************************************)
Min(S) == CHOOSE m \in S : \A n \in S : m <= n

RECURSIVE sorted(_)
sorted(S) == IF S = {} THEN <<>> ELSE <<Min(S)>> \o sorted(S \ {Min(S)})

Range(seq) == {seq[i] : i \in 1..Len(seq)}

\* dict: k in d, d[k] = v, d.get(k) (<<value>>, or <<>> for None)
Has(d, k) == k \in DOMAIN d
Put(d, k, v) == (k :> v) @@ d
Get(d, k) == IF Has(d, k) THEN <<d[k]>> ELSE <<>>

(***************************************************************************)
(* game/board.py                                                           *)
(***************************************************************************)
\* a bug: only the direction u -> v of an edge (u, v) is entered
BoardDirected(edges) ==
  LET ends == UNION {{e[1], e[2]} : e \in Range(edges)}
  IN [edges |-> edges,
      adjacency |-> [u \in ends |->
          {e[2] : e \in {f \in Range(edges) : f[1] = u}}],
      nodes |-> sorted(ends)]

\* Board.__init__: _adjacency is filled with both directions of every edge
Board(edges) ==
  LET ends == UNION {{e[1], e[2]} : e \in Range(edges)}
  IN [edges |-> edges,
      adjacency |-> [u \in ends |->
          {e[2] : e \in {f \in Range(edges) : f[1] = u}}
            \cup {e[1] : e \in {f \in Range(edges) : f[2] = u}}],
      nodes |-> sorted(ends)]

neighbors(b, node) ==
  IF node \in DOMAIN b.adjacency THEN b.adjacency[node] ELSE {}

\* a bug: a node is taken to be on the board when it is within 1..number of
\* nodes, as if the node ids had no gaps
has_node_in_range(b, node) == node >= 1 /\ node <= Len(b.nodes)

has_node(b, node) == node \in DOMAIN b.adjacency

\* the edge lists a board is built from.  main builds the board of
\* create_top_right_board; the solver and the engine take any Board, and the
\* boards here are small ones made by the same constructor: paths, a cycle, a
\* triangle with a repeated edge and a tail, and a board with a self-loop and
\* a gap in its node ids
EdgeLists ==
  { << <<1, 2>> >>,
    << <<1, 2>>, <<2, 3>> >>,
    << <<1, 2>>, <<2, 3>>, <<3, 4>> >>,
    << <<1, 2>>, <<2, 3>>, <<3, 4>>, <<4, 5>>, <<5, 1>> >>,
    << <<1, 2>>, <<2, 3>>, <<3, 1>>, <<2, 1>>, <<3, 4>> >>,
    << <<1, 1>>, <<1, 2>>, <<2, 4>> >> }

(***************************************************************************)
(* game/state.py and solver/exhaustive_solver.py: the two state types      *)
(***************************************************************************)
GameState(mrx, dets, maxr) ==
  [mrx_position |-> mrx, detective_positions |-> dets, round_number |-> 0,
   current_player |-> "mrx", mrx_history |-> <<>>, game_over |-> FALSE,
   mrx_caught |-> FALSE, max_rounds |-> maxr]

\* state before main has built the GameState
NoGameState ==
  [mrx_position |-> 0, detective_positions |-> <<>>, round_number |-> 0,
   current_player |-> None, mrx_history |-> <<>>, game_over |-> FALSE,
   mrx_caught |-> FALSE, max_rounds |-> 0]

SolverState(r, p, x, d) ==
  [round_number |-> r, current_player |-> p, mrx_position |-> x,
   detective_positions |-> d]

\* a bug: the dataclass leaves round_number out of its comparison and hash, so
\* states of different rounds share a memo and policy entry
KeyNoRound(s) ==
  [round_number |-> 0, current_player |-> s.current_player,
   mrx_position |-> s.mrx_position,
   detective_positions |-> s.detective_positions]

\* the dict key a SolverState makes: the frozen dataclass compares and hashes
\* by its four fields
Key(s) ==
  [round_number |-> s.round_number, current_player |-> s.current_player,
   mrx_position |-> s.mrx_position,
   detective_positions |-> s.detective_positions]

from_game_state(gs) ==
  SolverState(gs.round_number, gs.current_player, gs.mrx_position,
              gs.detective_positions)

\* f"detective_{idx}"
detective(idx) == "detective_" \o ToString(idx)

\* int(current_player.split("_")[1])
player_index(p, n) == CHOOSE idx \in 0..(n - 1) : detective(idx) = p

(***************************************************************************)
(* solver/exhaustive_solver.py                                             *)
(***************************************************************************)
\* a bug: the excluded nodes are not removed from the neighbours
_valid_moves_all_neighbors(b, node, excluded_nodes) ==
  sorted(neighbors(b, node))

_valid_moves(b, node, excluded_nodes) ==
  sorted({n \in neighbors(b, node) : n \notin excluded_nodes})

\* a bug: the round cap of lines 71-72 is not tested
_is_terminal_no_cap(b, s, max_rounds) ==
  IF s.mrx_position \in Range(s.detective_positions) THEN <<TRUE, FALSE>>
  ELSE IF s.current_player = "mrx"
          /\ _valid_moves(b, s.mrx_position, Range(s.detective_positions)) = <<>>
       THEN <<TRUE, FALSE>>
  ELSE <<FALSE, FALSE>>

\* a bug: the capture of lines 67-68 is not tested
_is_terminal_no_capture(b, s, max_rounds) ==
  IF s.round_number >= max_rounds /\ s.current_player = "mrx"
  THEN <<TRUE, TRUE>>
  ELSE IF s.current_player = "mrx"
          /\ _valid_moves(b, s.mrx_position, Range(s.detective_positions)) = <<>>
       THEN <<TRUE, FALSE>>
  ELSE <<FALSE, FALSE>>

\* a bug: the round cap is tested with > where Mr. X has survived at >=
_is_terminal_late(b, s, max_rounds) ==
  IF s.mrx_position \in Range(s.detective_positions) THEN <<TRUE, FALSE>>
  ELSE IF s.round_number > max_rounds /\ s.current_player = "mrx"
       THEN <<TRUE, TRUE>>
  ELSE IF s.current_player = "mrx"
          /\ _valid_moves(b, s.mrx_position, Range(s.detective_positions)) = <<>>
       THEN <<TRUE, FALSE>>
  ELSE <<FALSE, FALSE>>

\* a bug: the round cap is tested before the capture
_is_terminal_survived_first(b, s, max_rounds) ==
  IF s.round_number >= max_rounds /\ s.current_player = "mrx"
  THEN <<TRUE, TRUE>>
  ELSE IF s.mrx_position \in Range(s.detective_positions) THEN <<TRUE, FALSE>>
  ELSE IF s.current_player = "mrx"
          /\ _valid_moves(b, s.mrx_position, Range(s.detective_positions)) = <<>>
       THEN <<TRUE, FALSE>>
  ELSE <<FALSE, FALSE>>

\* <<is_terminal, mrx_wins>>
_is_terminal(b, s, max_rounds) ==
  IF s.mrx_position \in Range(s.detective_positions) THEN <<TRUE, FALSE>>
  ELSE IF s.round_number >= max_rounds /\ s.current_player = "mrx"
       THEN <<TRUE, TRUE>>
  ELSE IF s.current_player = "mrx"
          /\ _valid_moves(b, s.mrx_position, Range(s.detective_positions)) = <<>>
       THEN <<TRUE, FALSE>>
  ELSE <<FALSE, FALSE>>

\* a bug: the round advances with every move, not only with Mr. X's
_next_states_round_per_move(b, s) ==
  IF s.current_player = "mrx"
  THEN LET legal == _valid_moves(b, s.mrx_position, Range(s.detective_positions))
           next_player == IF Len(s.detective_positions) > 0
                          THEN "detective_0" ELSE "mrx"
       IN [k \in 1..Len(legal) |->
             <<legal[k], SolverState(s.round_number + 1, next_player, legal[k],
                                     s.detective_positions)>>]
  ELSE LET det_positions == s.detective_positions
           idx == player_index(s.current_player, Len(det_positions))
           from_node == det_positions[idx + 1]
           occupied_by_other_detectives ==
             {det_positions[i + 1] : i \in (0..(Len(det_positions) - 1)) \ {idx}}
           moves == _valid_moves(b, from_node, occupied_by_other_detectives)
           legal == IF moves = <<>> THEN <<from_node>> ELSE moves
           next_player == IF idx + 1 < Len(det_positions)
                          THEN detective(idx + 1) ELSE "mrx"
       IN [k \in 1..Len(legal) |->
             <<legal[k], SolverState(s.round_number + 1, next_player,
                                     s.mrx_position,
                                     [det_positions EXCEPT ![idx + 1] = legal[k]])>>]

\* a bug: a detective with no legal move has no successor
_next_states_stuck_absent(b, s) ==
  IF s.current_player = "mrx"
  THEN LET legal == _valid_moves(b, s.mrx_position, Range(s.detective_positions))
           next_player == IF Len(s.detective_positions) > 0
                          THEN "detective_0" ELSE "mrx"
       IN [k \in 1..Len(legal) |->
             <<legal[k], SolverState(s.round_number + 1, next_player, legal[k],
                                     s.detective_positions)>>]
  ELSE LET det_positions == s.detective_positions
           idx == player_index(s.current_player, Len(det_positions))
           from_node == det_positions[idx + 1]
           occupied_by_other_detectives ==
             {det_positions[i + 1] : i \in (0..(Len(det_positions) - 1)) \ {idx}}
           legal == _valid_moves(b, from_node, occupied_by_other_detectives)
           next_player == IF idx + 1 < Len(det_positions)
                          THEN detective(idx + 1) ELSE "mrx"
       IN [k \in 1..Len(legal) |->
             <<legal[k], SolverState(s.round_number, next_player, s.mrx_position,
                                     [det_positions EXCEPT ![idx + 1] = legal[k]])>>]

\* the sequence of <<move, next_state>>
_next_states(b, s) ==
  IF s.current_player = "mrx"
  THEN LET legal == _valid_moves(b, s.mrx_position, Range(s.detective_positions))
           next_player == IF Len(s.detective_positions) > 0
                          THEN "detective_0" ELSE "mrx"
       IN [k \in 1..Len(legal) |->
             <<legal[k], SolverState(s.round_number + 1, next_player, legal[k],
                                     s.detective_positions)>>]
  ELSE LET det_positions == s.detective_positions
           idx == player_index(s.current_player, Len(det_positions))
           from_node == det_positions[idx + 1]
           occupied_by_other_detectives ==
             {det_positions[i + 1] : i \in (0..(Len(det_positions) - 1)) \ {idx}}
           moves == _valid_moves(b, from_node, occupied_by_other_detectives)
           legal == IF moves = <<>> THEN <<from_node>> ELSE moves
           next_player == IF idx + 1 < Len(det_positions)
                          THEN detective(idx + 1) ELSE "mrx"
       IN [k \in 1..Len(legal) |->
             <<legal[k], SolverState(s.round_number, next_player, s.mrx_position,
                                     [det_positions EXCEPT ![idx + 1] = legal[k]])>>]

(***************************************************************************)
(* strategies/policy_strategy.py                                           *)
(***************************************************************************)
\* a bug: the key is built with the live round number, as by the
\* implementation that does not subtract 1
_policy_lookup_state_no_offset(gs) ==
  SolverState(gs.round_number, gs.current_player, gs.mrx_position,
              gs.detective_positions)

\* lines 22-37
_policy_lookup_state(gs) ==
  LET rn == IF gs.current_player = "mrx"
            THEN gs.round_number - 1 ELSE gs.round_number
  IN SolverState(rn, gs.current_player, gs.mrx_position, gs.detective_positions)

\* ','.join(map(str, seq))
RECURSIVE join(_)
join(seq) ==
  IF seq = <<>> THEN ""
  ELSE IF Len(seq) = 1 THEN ToString(seq[1])
  ELSE ToString(seq[1]) \o "," \o join(Tail(seq))

\* a bug: the detective positions are written in ascending order
FormatKeySorted(s) ==
  "r=" \o ToString(s.round_number) \o "|p=" \o s.current_player
    \o "|x=" \o ToString(s.mrx_position)
    \o "|d=" \o join(sorted(Range(s.detective_positions)))

\* main._state_to_key, and the f-string of SerializedPolicyStrategy._state_to_key
FormatKey(s) ==
  "r=" \o ToString(s.round_number) \o "|p=" \o s.current_player
    \o "|x=" \o ToString(s.mrx_position) \o "|d=" \o join(s.detective_positions)

\* main, lines 253-256 and 87-95: the policy as --dump-policy writes it and
\* --policy-file loads it, each key replaced by its string.  (Were two keys to
\* get the same string, the later of the dict's order would overwrite the
\* earlier; the order is not kept here and one of the two is taken.)
Serialize(pol) ==
  [k \in {FormatKey(s) : s \in DOMAIN pol} |->
     pol[CHOOSE s \in DOMAIN pol : FormatKey(s) = k]]

\* SerializedPolicyStrategy._state_to_key
_state_to_key(gs) == FormatKey(_policy_lookup_state(gs))

\* a bug: the stored move is returned without the test move in valid_moves
AfterLookupUnchecked(move, strict, valid_moves) ==
  IF move # <<>>
  THEN [move |-> move[1], lookup |-> "hit"]
  ELSE IF strict THEN [move |-> 0, lookup |-> "KeyError"]
  ELSE [move |-> Min(Range(valid_moves)), lookup |-> "fallback"]

\* a bug: strict is not tested, a miss always falls back to min(valid_moves)
AfterLookupNeverStrict(move, strict, valid_moves) ==
  IF move # <<>> /\ move[1] \in Range(valid_moves)
  THEN [move |-> move[1], lookup |-> "hit"]
  ELSE [move |-> Min(Range(valid_moves)), lookup |-> "fallback"]

\* choose_move of both policy classes after the lookup: the move, or the
\* KeyError of strict mode; lookup tells which return was taken
AfterLookup(move, strict, valid_moves) ==
  IF move # <<>> /\ move[1] \in Range(valid_moves)
  THEN [move |-> move[1], lookup |-> "hit"]
  ELSE IF strict THEN [move |-> 0, lookup |-> "KeyError"]
  ELSE [move |-> Min(Range(valid_moves)), lookup |-> "fallback"]

PolicyStrategy_choose_move(self, gs, valid_moves) ==
  AfterLookup(Get(self.policy, Key(_policy_lookup_state(gs))), self.strict,
              valid_moves)

SerializedPolicyStrategy_choose_move(self, gs, valid_moves) ==
  AfterLookup(Get(self.serialized_policy, _state_to_key(gs)), self.strict,
              valid_moves)

\* strategies/random_strategy.py: any member of valid_moves
RandomStrategy_choose_move(valid_moves) ==
  {[move |-> m, lookup |-> None] : m \in Range(valid_moves)}

\* strategies/human.py: what move_selector returns.  The selector of the
\* command line returns a member of valid_moves; one given by the caller
\* returns any node id, on the board or off it
Selections == 0..(MaxNode + 1)

HumanStrategy_choose_move(valid_moves) ==
  {[move |-> m, lookup |-> None] : m \in Selections}

\* the returns choose_move of strategy self can make
choose_move(self, gs, valid_moves) ==
  IF self.kind = "PolicyStrategy"
  THEN {PolicyStrategy_choose_move(self, gs, valid_moves)}
  ELSE IF self.kind = "SerializedPolicyStrategy"
  THEN {SerializedPolicyStrategy_choose_move(self, gs, valid_moves)}
  ELSE IF self.kind = "HumanStrategy"
  THEN HumanStrategy_choose_move(valid_moves)
  ELSE RandomStrategy_choose_move(valid_moves)

(***************************************************************************)
(* game/engine.py: the helpers                                             *)
(***************************************************************************)
\* a bug: the excluded nodes are not taken out
get_valid_moves_no_exclusion(b, node, excluded_nodes) ==
  sorted(neighbors(b, node))

get_valid_moves(b, node, excluded_nodes) ==
  IF excluded_nodes # <<>>
  THEN sorted({n \in neighbors(b, node) : n \notin Range(excluded_nodes)})
  ELSE sorted(neighbors(b, node))

\* a bug: Survived is tested with > where the solver tests >=
_check_game_over_late(b, s) ==
  IF s.mrx_position \in Range(s.detective_positions)
  THEN [s EXCEPT !.game_over = TRUE, !.mrx_caught = TRUE]
  ELSE IF s.round_number > s.max_rounds /\ s.current_player = "mrx"
  THEN [s EXCEPT !.game_over = TRUE, !.mrx_caught = FALSE]
  ELSE IF s.current_player = "mrx"
          /\ get_valid_moves(b, s.mrx_position, s.detective_positions) = <<>>
  THEN [s EXCEPT !.game_over = TRUE, !.mrx_caught = TRUE]
  ELSE s

\* a bug: the Trapped branch sets mrx_caught as the Survived branch does
_check_game_over_trapped_uncaught(b, s) ==
  IF s.mrx_position \in Range(s.detective_positions)
  THEN [s EXCEPT !.game_over = TRUE, !.mrx_caught = TRUE]
  ELSE IF s.round_number >= s.max_rounds /\ s.current_player = "mrx"
  THEN [s EXCEPT !.game_over = TRUE, !.mrx_caught = FALSE]
  ELSE IF s.current_player = "mrx"
          /\ get_valid_moves(b, s.mrx_position, s.detective_positions) = <<>>
  THEN [s EXCEPT !.game_over = TRUE, !.mrx_caught = FALSE]
  ELSE s

\* the state after _check_game_over
_check_game_over(b, s) ==
  IF s.mrx_position \in Range(s.detective_positions)
  THEN [s EXCEPT !.game_over = TRUE, !.mrx_caught = TRUE]
  ELSE IF s.round_number >= s.max_rounds /\ s.current_player = "mrx"
  THEN [s EXCEPT !.game_over = TRUE, !.mrx_caught = FALSE]
  ELSE IF s.current_player = "mrx"
          /\ get_valid_moves(b, s.mrx_position, s.detective_positions) = <<>>
  THEN [s EXCEPT !.game_over = TRUE, !.mrx_caught = TRUE]
  ELSE s

(***************************************************************************)
(* The inputs: the command line and the policy file                        *)
(***************************************************************************)
\* the detective start lists: --detectives takes one or more nodes, and a
\* policy file or a caller of the solver can also give an empty list
StartLists == UNION {[1..n -> 1..MaxNode] : n \in 0..MaxDetectives}

Configs == [mrx : 1..MaxNode, detectives : StartLists, max_rounds : (-1)..MaxRounds]

\* what _load_policy_bundle returns for a file with this config: a policy
\* with one entry, for the start state
Bundle(c) ==
  [policy |-> (FormatKey(SolverState(0, "mrx", c.mrx, c.detectives)) :> 2),
   mrx_start |-> c.mrx, detective_starts |-> c.detectives,
   max_rounds |-> c.max_rounds]

\* a start with more rounds than MaxRounds: Mr. X at 1, one detective at 3,
\* max_rounds 5
LongConfigs == {[mrx |-> 1, detectives |-> <<3>>, max_rounds |-> 5]}

\* the command lines without --policy-file, in the modes solve and auto
PlainCommandLines ==
  {[mode |-> m, mrx |-> c.mrx, detectives |-> c.detectives,
    max_rounds |-> c.max_rounds, flags |-> TRUE, policy_file |-> <<>>]
     : m \in {"solve", "auto"}, c \in Configs \cup LongConfigs}

\* the command lines with --policy-file (the files hold max_rounds =
\* MaxRounds): without the flags --mrx, --detectives, --max-rounds, with flags
\* that agree with the file, and with --mrx disagreeing
FileCommandLines ==
  UNION {
    {[mode |-> m, mrx |-> c.mrx, detectives |-> c.detectives,
      max_rounds |-> c.max_rounds, flags |-> f, policy_file |-> <<Bundle(c)>>]
       : m \in {"solve", "auto"}, f \in BOOLEAN}
    \cup
    {[mode |-> "auto", mrx |-> c.mrx, detectives |-> c.detectives,
      max_rounds |-> c.max_rounds, flags |-> TRUE,
      policy_file |-> <<Bundle([c EXCEPT !.mrx = (@ % MaxNode) + 1])>>]}
    : c \in {d \in Configs : d.max_rounds = MaxRounds}}

CommandLines == PlainCommandLines \cup FileCommandLines

\* a strategy object: its class, policy of PolicyStrategy, serialized_policy of
\* SerializedPolicyStrategy, and strict of both
Strategy(kind, pol, ser, strict) ==
  [kind |-> kind, policy |-> pol, serialized_policy |-> ser, strict |-> strict]

\* mrx_strategy before the engine is built, result before the solve returns
NoStrategy == Strategy(None, <<>>, <<>>, FALSE)
NoResult == [forced_escape |-> FALSE, policy |-> <<>>, states_evaluated |-> 0]

VARIABLES
  argv,         \* the command line of main
  board,        \* the Board
  pc,           \* where the program is
  state,        \* the GameState built by main
  memo,         \* solve_mrx_forced_escape: memo
  policy,       \* solve_mrx_forced_escape: policy
  stack,        \* the activations of can_mrx_force_win, innermost last
  result,       \* the ExhaustiveResult returned
  prev,         \* <<the command line and result of an earlier run of main>>, or <<>>
  mrx_strategy, \* GameEngine.mrx_strategy
  detective_strategies, \* GameEngine.detective_strategies: the class of each
  lookup,       \* which return the last choose_move of Mr. X took
  on_move_calls \* GameEngine.on_move: the number of calls the observer got

vars == <<argv, board, pc, state, memo, policy, stack, result, prev,
          mrx_strategy, detective_strategies, lookup, on_move_calls>>

solver_vars == <<memo, policy, stack, result>>
engine_vars == <<mrx_strategy, detective_strategies, lookup, on_move_calls>>

Init ==
  /\ argv \in CommandLines
  /\ board \in {Board(e) : e \in EdgeLists}
  /\ pc = "main"
  /\ state = NoGameState
  /\ memo = <<>>
  /\ policy = <<>>
  /\ stack = <<>>
  /\ result = NoResult
  /\ prev = <<>>
  /\ mrx_strategy = NoStrategy
  /\ detective_strategies = None
  /\ lookup = None
  /\ on_move_calls = 0

(***************************************************************************)
(* main.py                                                                 *)
(***************************************************************************)

\* lines 164-238: the start is taken from the command line or from the policy
\* file and validated; then the solve starts (lines 161-165 of the solver), or
\* the engine is built with the loaded policy (lines 281, 363).  main leaves
\* strict at its default False; the class takes either setting, and both are
\* started here.
Main ==
  /\ pc = "main"
  /\ LET loaded == argv.policy_file # <<>>
         mrx_start == IF loaded THEN argv.policy_file[1].mrx_start ELSE argv.mrx
         detective_starts ==
           IF loaded THEN argv.policy_file[1].detective_starts ELSE argv.detectives
         max_rounds ==
           IF loaded THEN argv.policy_file[1].max_rounds ELSE argv.max_rounds
         mismatch == /\ loaded
                     /\ argv.flags
                     /\ \/ argv.mrx # mrx_start
                        \/ argv.detectives # detective_starts
                        \/ argv.max_rounds # max_rounds
         all_pos == <<mrx_start>> \o detective_starts
     IN IF (loaded /\ argv.mode = "solve") \/ mismatch
        THEN pc' = "exit" /\ UNCHANGED <<state, memo, policy, engine_vars>>
        ELSE IF \E p \in Range(all_pos) : ~has_node(board, p)
        THEN pc' = "exit" /\ UNCHANGED <<state, memo, policy, engine_vars>>
        ELSE IF Cardinality(Range(all_pos)) # Len(all_pos)
        THEN pc' = "exit" /\ UNCHANGED <<state, memo, policy, engine_vars>>
        ELSE /\ state' = GameState(mrx_start, detective_starts, max_rounds)
             /\ IF loaded
                THEN /\ pc' = "play"
                     /\ \E strict \in BOOLEAN :
                          mrx_strategy' =
                            Strategy("SerializedPolicyStrategy", <<>>,
                                     argv.policy_file[1].policy, strict)
                     /\ detective_strategies' = "RandomStrategy"
                     /\ UNCHANGED <<memo, policy, lookup, on_move_calls>>
                ELSE /\ pc' = "solve"
                     /\ memo' = <<>>
                     /\ policy' = <<>>
                     /\ UNCHANGED engine_vars
  /\ UNCHANGED <<argv, board, stack, result, prev>>

\* lines 366-378: the engine is built after the solve.  main gives Mr. X
\* PolicyStrategy(solve.policy) when forced_escape holds and RandomStrategy
\* otherwise; the engine takes any strategy, and PolicyStrategy either
\* setting of strict, so all of them are started here.  So is
\* SerializedPolicyStrategy with the policy of the solve as --dump-policy
\* writes it and --policy-file loads it, unless it is empty (lines 93-94).
\* The detectives of those games play RandomStrategy, as in main.  Also
\* started is a game in which every player is a HumanStrategy with a
\* move_selector of the caller's.
EngineStart ==
  /\ pc = "done"
  /\ argv.mode = "auto"
  /\ \E kind \in {"PolicyStrategy", "RandomStrategy", "SerializedPolicyStrategy",
                   "HumanStrategy"},
        strict \in BOOLEAN :
       /\ kind \in {"RandomStrategy", "HumanStrategy"} => ~strict
       /\ detective_strategies' =
            (IF kind = "HumanStrategy" THEN "HumanStrategy" ELSE "RandomStrategy")
       /\ kind = "SerializedPolicyStrategy" => result.policy # <<>>
       /\ mrx_strategy' =
            Strategy(kind,
                     IF kind = "PolicyStrategy" THEN result.policy ELSE <<>>,
                     IF kind = "SerializedPolicyStrategy"
                     THEN Serialize(result.policy) ELSE <<>>,
                     strict)
  /\ pc' = "play"
  /\ memo' = <<>>
  /\ policy' = <<>>
  /\ UNCHANGED <<argv, board, state, stack, result, prev, lookup,
                 on_move_calls>>

\* main --mode solve is run once more on the same board and start, with the
\* same --max-rounds or a larger one
Rerun ==
  /\ pc = "done"
  /\ argv.mode = "solve"
  /\ prev = <<>>
  /\ prev' = <<[argv |-> argv, result |-> result]>>
  /\ \E m \in argv.max_rounds..(MaxRounds + 1) :
       argv' = [argv EXCEPT !.max_rounds = m]
  /\ pc' = "main"
  /\ state' = NoGameState
  /\ memo' = <<>>
  /\ policy' = <<>>
  /\ result' = NoResult
  /\ UNCHANGED <<board, stack, engine_vars>>

(***************************************************************************)
(* solve_mrx_forced_escape: the recursion can_mrx_force_win, one step per  *)
(* call or return.                                                         *)
(***************************************************************************)
start == from_game_state(state)

Top == stack[Len(stack)]

\* the argument of the call about to be made: start from the solve itself,
\* the next child from an activation that is iterating over its children
Callee == IF stack = <<>> THEN start ELSE Top.children[Top.i][2]

Calling ==
  pc = "solve" /\ (IF stack = <<>> THEN TRUE ELSE Top.i <= Len(Top.children))

\* a call returns value v to its caller
Deliver(v, stk, mem, pol) ==
  IF stk = <<>>
  THEN /\ result' = [forced_escape |-> v, policy |-> pol,
                     states_evaluated |-> Cardinality(DOMAIN mem)]
       /\ pc' = "done"
       /\ stack' = stk
  ELSE /\ stack' = [stk EXCEPT ![Len(stk)] =
                      [@ EXCEPT !.results = Append(@, v), !.i = @ + 1]]
       /\ UNCHANGED <<pc, result>>

\* lines 168-169: the state is cached
CallMemoHit ==
  /\ Calling
  /\ Has(memo, Key(Callee))
  /\ Deliver(memo[Key(Callee)], stack, memo, policy)
  /\ UNCHANGED <<argv, board, state, memo, policy, prev, engine_vars>>

\* a bug: the policy entry is written before the terminal test, for every
\* state in which Mr. X is to move and has a legal move
CallTerminalWithPolicy ==
  /\ Calling
  /\ ~Has(memo, Key(Callee))
  /\ LET t == _is_terminal(board, Callee, state.max_rounds)
         legal == _valid_moves(board, Callee.mrx_position,
                               Range(Callee.detective_positions))
     IN /\ t[1]
        /\ memo' = Put(memo, Key(Callee), t[2])
        /\ policy' = IF Callee.current_player = "mrx" /\ legal # <<>>
                     THEN Put(policy, Key(Callee), legal[1]) ELSE policy
        /\ Deliver(t[2], stack, memo', policy')
  /\ UNCHANGED <<argv, board, state, prev, engine_vars>>

\* lines 171-174: the state is terminal
CallTerminal ==
  /\ Calling
  /\ ~Has(memo, Key(Callee))
  /\ LET t == _is_terminal(board, Callee, state.max_rounds)
     IN /\ t[1]
        /\ memo' = Put(memo, Key(Callee), t[2])
        /\ Deliver(t[2], stack, memo', policy)
  /\ UNCHANGED <<argv, board, state, policy, prev, engine_vars>>

\* a bug: the state is entered in the memo with False when its evaluation
\* starts, and the entry is written again when the evaluation ends
CallExpandPlaceholder ==
  /\ Calling
  /\ ~Has(memo, Key(Callee))
  /\ ~_is_terminal(board, Callee, state.max_rounds)[1]
  /\ memo' = Put(memo, Key(Callee), FALSE)
  /\ stack' = Append(stack, [state |-> Callee,
                             children |-> _next_states(board, Callee),
                             i |-> 1, results |-> <<>>])
  /\ UNCHANGED <<argv, board, pc, state, policy, result, prev, engine_vars>>

\* line 176: the children are enumerated and the loop over them starts
CallExpand ==
  /\ Calling
  /\ ~Has(memo, Key(Callee))
  /\ ~_is_terminal(board, Callee, state.max_rounds)[1]
  /\ stack' = Append(stack, [state |-> Callee,
                             children |-> _next_states(board, Callee),
                             i |-> 1, results |-> <<>>])
  /\ UNCHANGED <<argv, board, pc, state, memo, policy, result, prev, engine_vars>>

\* a bug: Mr. X is given the verdict True only when every move wins
MrxChoiceAllWin(children, results) ==
  LET moves == {children[k][1] : k \in 1..Len(children)}
  IN <<Min(moves), \A k \in 1..Len(results) : results[k]>>

\* a bug: the fallback of lines 192-193 takes the largest move
MrxChoiceLargestFallback(children, results) ==
  LET winning_moves == {children[k][1] : k \in {j \in 1..Len(children) : results[j]}}
      moves == {children[k][1] : k \in 1..Len(children)}
  IN IF winning_moves # {}
     THEN <<Min(winning_moves), TRUE>>
     ELSE <<CHOOSE m \in moves : \A n \in moves : n <= m, FALSE>>

\* a bug: the move is taken from an unordered collection whose iteration
\* order differs from one run of the interpreter to the next: the smallest
\* winning move in the first run, the largest in the second
MrxChoiceUnordered(children, results) ==
  LET winning_moves == {children[k][1] : k \in {j \in 1..Len(children) : results[j]}}
      moves == {children[k][1] : k \in 1..Len(children)}
      from == IF winning_moves # {} THEN winning_moves ELSE moves
  IN <<IF prev = <<>> THEN Min(from)
       ELSE CHOOSE m \in from : \A n \in from : n <= m,
       winning_moves # {}>>

\* lines 184-195: <<chosen, verdict>>, the smallest winning move and True, or
\* the smallest move and False
MrxChoice(children, results) ==
  LET winning_moves == {children[k][1] : k \in {j \in 1..Len(children) : results[j]}}
  IN IF winning_moves # {}
     THEN <<Min(winning_moves), TRUE>>
     ELSE <<Min({children[k][1] : k \in 1..Len(children)}), FALSE>>

\* a bug: a detective state is good as soon as one detective move is
any_child_good(results) == \E k \in 1..Len(results) : results[k]

\* a bug: the flag is assigned the result of each child in turn, so the
\* verdict is that of the last child
all_children_good_last(results) == results[Len(results)]

\* lines 198-203
all_children_good(results) == \A k \in 1..Len(results) : results[k]

\* a bug: the loop over a detective's children stops at the first child
\* from which Mr. X cannot force a win, as all() over a generator does
ReturningShortCircuit ==
  /\ pc = "solve"
  /\ stack # <<>>
  /\ IF Top.i > Len(Top.children) THEN TRUE
     ELSE /\ Top.state.current_player # "mrx"
          /\ \E k \in 1..Len(Top.results) : ~Top.results[k]

Returning == pc = "solve" /\ stack # <<>> /\ Top.i > Len(Top.children)

ReturnMrx ==
  /\ Returning
  /\ Top.state.current_player = "mrx"
  /\ LET c == MrxChoice(Top.children, Top.results)
     IN /\ policy' = Put(policy, Key(Top.state), c[1])
        /\ memo' = Put(memo, Key(Top.state), c[2])
        /\ Deliver(c[2], SubSeq(stack, 1, Len(stack) - 1), memo', policy')
  /\ UNCHANGED <<argv, board, state, prev, engine_vars>>

ReturnDetective ==
  /\ Returning
  /\ Top.state.current_player # "mrx"
  /\ LET v == all_children_good(Top.results)
     IN /\ memo' = Put(memo, Key(Top.state), v)
        /\ Deliver(v, SubSeq(stack, 1, Len(stack) - 1), memo', policy)
  /\ UNCHANGED <<argv, board, state, policy, prev, engine_vars>>

(***************************************************************************)
(* game/engine.py: GameEngine.step, one action per call                    *)
(***************************************************************************)
\* a bug: step makes the move without the test of lines 107-108
SteppingUnchecked == pc = "play"

\* step can make a move: the game is not over, also after _check_game_over
Stepping ==
  /\ pc = "play"
  /\ ~state.game_over
  /\ ~_check_game_over(board, state).game_over

\* lines 107-108: the game turns out to be over, step returns None
StepNone ==
  /\ pc = "play"
  /\ ~state.game_over
  /\ _check_game_over(board, state).game_over
  /\ state' = _check_game_over(board, state)
  /\ UNCHANGED <<argv, board, pc, solver_vars, prev, engine_vars>>

\* _step_mrx, then the _check_game_over of line 115
StepMrx ==
  /\ Stepping
  /\ state.current_player = "mrx"
  /\ LET s == [state EXCEPT !.round_number = @ + 1]
         valid == get_valid_moves(board, s.mrx_position, s.detective_positions)
     IN IF valid = <<>>
        THEN /\ state' = _check_game_over(board,
                           [s EXCEPT !.game_over = TRUE, !.mrx_caught = TRUE])
             /\ UNCHANGED <<pc, lookup, on_move_calls>>
        ELSE \E c \in choose_move(mrx_strategy, s, valid) :
               /\ lookup' = c.lookup
               /\ IF c.lookup = "KeyError"
                  THEN pc' = "KeyError" /\ state' = s
                       /\ UNCHANGED on_move_calls
                  ELSE IF c.move \notin Range(valid)
                  THEN pc' = "AssertionError" /\ state' = s
                       /\ UNCHANGED on_move_calls
                  ELSE /\ on_move_calls' = on_move_calls + 1
                       /\ state' = _check_game_over(board,
                            [s EXCEPT !.mrx_position = c.move,
                                      !.mrx_history = Append(@, c.move),
                                      !.current_player =
                                         IF Len(s.detective_positions) # 0
                                         THEN "detective_0" ELSE "mrx"])
                       /\ pc' = pc
  /\ UNCHANGED <<argv, board, solver_vars, prev, mrx_strategy,
                 detective_strategies>>

\* a bug: the move the strategy returns is applied without the assert of
\* lines 159-161
StepDetectiveUnasserted ==
  /\ Stepping
  /\ state.current_player # "mrx"
  /\ LET s == state
         num_detectives == Len(s.detective_positions)
         idx == player_index(s.current_player, num_detectives)
         occupied == [k \in 1..(num_detectives - 1) |->
                        s.detective_positions[IF k <= idx THEN k ELSE k + 1]]
         valid == get_valid_moves(board, s.detective_positions[idx + 1], occupied)
         from_node == s.detective_positions[idx + 1]
         next_player == IF idx + 1 < num_detectives
                        THEN detective(idx + 1) ELSE "mrx"
     IN \E move \in (IF valid = <<>> THEN {from_node}
                     ELSE IF detective_strategies = "HumanStrategy"
                     THEN Selections ELSE Range(valid)) :
          state' = _check_game_over(board,
                     [s EXCEPT !.detective_positions[idx + 1] = move,
                               !.current_player = next_player])
  /\ pc' = pc
  /\ on_move_calls' = on_move_calls + 1
  /\ UNCHANGED <<argv, board, solver_vars, prev, mrx_strategy,
                 detective_strategies, lookup>>

\* _step_detective, then the _check_game_over of line 115
StepDetective ==
  /\ Stepping
  /\ state.current_player # "mrx"
  /\ LET s == state
         num_detectives == Len(s.detective_positions)
         idx == player_index(s.current_player, num_detectives)
         occupied == [k \in 1..(num_detectives - 1) |->
                        s.detective_positions[IF k <= idx THEN k ELSE k + 1]]
         valid == get_valid_moves(board, s.detective_positions[idx + 1], occupied)
         from_node == s.detective_positions[idx + 1]
         next_player == IF idx + 1 < num_detectives
                        THEN detective(idx + 1) ELSE "mrx"
     IN IF valid = <<>>
        THEN /\ state' = _check_game_over(board,
                           [s EXCEPT !.current_player = next_player])
             /\ pc' = pc
             /\ on_move_calls' = on_move_calls + 1
        ELSE \E move \in (IF detective_strategies = "HumanStrategy"
                          THEN Selections ELSE Range(valid)) :
               IF move \notin Range(valid)
               THEN pc' = "AssertionError" /\ state' = s
                    /\ UNCHANGED on_move_calls
               ELSE /\ state' = _check_game_over(board,
                           [s EXCEPT !.detective_positions[idx + 1] = move,
                                     !.current_player = next_player])
                    /\ pc' = pc
                    /\ on_move_calls' = on_move_calls + 1
  /\ UNCHANGED <<argv, board, solver_vars, prev, mrx_strategy,
                 detective_strategies, lookup>>

\* the recursion of the solve, and the calls of step
SolverStep ==
  CallMemoHit \/ CallTerminal \/ CallExpand \/ ReturnMrx \/ ReturnDetective

Step == StepNone \/ StepMrx \/ StepDetective

Next ==
  \/ Main
  \/ SolverStep
  \/ Rerun
  \/ EngineStart
  \/ Step

Spec == Init /\ [][Next]_vars

\* One run of main in the mode auto without a policy file: the solve, then
\* the game.  The recursion runs on until it returns, and play_game (as the
\* visualizer's _auto_play) calls step for as long as the game is not over.
InitAuto == Init /\ argv.mode = "auto" /\ argv.policy_file = <<>>

NextAuto ==
  \/ Main
  \/ SolverStep
  \/ EngineStart
  \/ Step

FairSpec ==
  InitAuto /\ [][NextAuto]_vars /\ WF_vars(SolverStep) /\ WF_vars(Step)

(***************************************************************************)
(* The game of the solve in progress, read off _is_terminal and            *)
(* _next_states                                                            *)
(***************************************************************************)
Terminal(s) == _is_terminal(board, s, state.max_rounds)[1]
MrxWins(s) == _is_terminal(board, s, state.max_rounds)[2]

\* Captured or Trapped
Lost(s) == Terminal(s) /\ ~MrxWins(s)

\* Survived
Survived(s) ==
  /\ Terminal(s)
  /\ s.current_player = "mrx"
  /\ s.round_number >= state.max_rounds
  /\ s.mrx_position \notin Range(s.detective_positions)

LegalMoves(s) == {c[1] : c \in Range(_next_states(board, s))}
Succ(s) == IF Terminal(s) THEN {} ELSE {c[2] : c \in Range(_next_states(board, s))}
MoveTo(s, move) == {c[2] : c \in {d \in Range(_next_states(board, s)) : d[1] = move}}

\* the states reachable from the start by successors of non-terminal states
RECURSIVE ReachFrom(_, _)
ReachFrom(frontier, seen) ==
  LET all == seen \cup frontier
      new == UNION {Succ(s) : s \in frontier} \ all
  IN IF new = {} THEN all ELSE ReachFrom(new, all)

Reach == ReachFrom({start}, {})

\* the plays in which Mr. X plays the move policy pol stores for the state and
\* the detectives play any successor
PolicySucc(pol, s) ==
  IF Terminal(s) THEN {}
  ELSE IF s.current_player = "mrx"
  THEN IF Has(pol, Key(s)) THEN MoveTo(s, pol[Key(s)]) ELSE {}
  ELSE Succ(s)

RECURSIVE PolicyReachFrom(_, _, _)
PolicyReachFrom(pol, frontier, seen) ==
  LET all == seen \cup frontier
      new == UNION {PolicySucc(pol, s) : s \in frontier} \ all
  IN IF new = {} THEN all ELSE PolicyReachFrom(pol, new, all)

PolicyReach(pol) == PolicyReachFrom(pol, {start}, {})

\* the position of a state in the turn order: the round, then detective 0,
\* ..., the last detective, then Mr. X
Rank(s) ==
  LET n == Len(s.detective_positions)
  IN s.round_number * (n + 1)
       + (IF s.current_player = "mrx" THEN n ELSE player_index(s.current_player, n))

Solved == pc = "done"

(***************************************************************************)
(* C1  Soundness.  When the solve returns forced_escape = True, no play    *)
(* from the start in which Mr. X plays the policy's move and the           *)
(* detectives play any successor reaches a Captured or Trapped state:      *)
(* every terminal state of such a play is Survived, and every other state  *)
(* of it has a successor in the play, each later in the turn order and     *)
(* within max_rounds, so every such play ends, in a Survived state.        *)
(***************************************************************************)
C1_Soundness ==
  (Solved /\ result.forced_escape) =>
    \A s \in PolicyReach(result.policy) :
      /\ ~Lost(s)
      /\ Terminal(s) => Survived(s)
      /\ ~Terminal(s) =>
           /\ PolicySucc(result.policy, s) # {}
           /\ s.round_number <= state.max_rounds
           /\ \A t \in PolicySucc(result.policy, s) : Rank(t) > Rank(s)

\* a forced escape over at least two rounds in which a detective has a choice
\* and the policy's move is not Mr. X's smallest legal move
C1_Witness ==
  /\ Solved
  /\ result.forced_escape
  /\ \E s \in PolicyReach(result.policy) : Survived(s) /\ s.round_number >= 2
  /\ \E s \in PolicyReach(result.policy) :
        s.current_player # "mrx" /\ Cardinality(Succ(s)) >= 2
  /\ \E s \in PolicyReach(result.policy) :
        /\ ~Terminal(s)
        /\ s.current_player = "mrx"
        /\ result.policy[Key(s)] > Min(LegalMoves(s))

(***************************************************************************)
(* C2  Exactness.  forced_escape is True exactly when Mr. X can force a    *)
(* Survived state from the start: he has a move such that for every        *)
(* detective move he has a move ... that ends in Survived; and when it is  *)
(* False the detectives can force a Captured or Trapped state: for every   *)
(* move of Mr. X they have a move ... that ends in Captured or Trapped.    *)
(***************************************************************************)
RECURSIVE MrxCanForce(_)
MrxCanForce(s) ==
  IF Terminal(s) THEN Survived(s)
  ELSE IF s.current_player = "mrx"
  THEN \E t \in Succ(s) : MrxCanForce(t)
  ELSE \A t \in Succ(s) : MrxCanForce(t)

RECURSIVE DetectivesCanForce(_)
DetectivesCanForce(s) ==
  IF Terminal(s) THEN Lost(s)
  ELSE IF s.current_player = "mrx"
  THEN \A t \in Succ(s) : DetectivesCanForce(t)
  ELSE \E t \in Succ(s) : DetectivesCanForce(t)

C2_Exactness ==
  Solved =>
    /\ result.forced_escape <=> MrxCanForce(start)
    /\ ~result.forced_escape => DetectivesCanForce(start)

\* a solve that returns False although Mr. X has several moves at the start and
\* is not lost within the first round
C2_Witness ==
  /\ Solved
  /\ ~result.forced_escape
  /\ Cardinality(LegalMoves(start)) >= 2
  /\ \E s \in Reach : ~Terminal(s) /\ s.current_player = "mrx" /\ s.round_number >= 1

(***************************************************************************)
(* The live game of an engine whose Mr. X plays PolicyStrategy with the    *)
(* policy of the solve of the same start                                   *)
(***************************************************************************)
EngineBuilt == pc \in {"play", "KeyError", "AssertionError"}

PolicyGame ==
  /\ EngineBuilt
  /\ mrx_strategy.kind = "PolicyStrategy"
  /\ mrx_strategy.policy = result.policy

EscapedGame == pc = "play" /\ state.game_over /\ ~state.mrx_caught

(***************************************************************************)
(* C3  End to end.  When the solve returned forced_escape = True, the      *)
(* engine started from the same state with PolicyStrategy(policy) for      *)
(* Mr. X and detectives that play any valid move never raises and never    *)
(* has Mr. X caught, and the game ends: it reaches game_over = True with   *)
(* mrx_caught = False.                                                     *)
(***************************************************************************)
C3_LivePlayEscapes ==
  /\ [](PolicyGame /\ result.forced_escape
          => pc = "play" /\ ~state.mrx_caught)
  /\ (PolicyGame /\ result.forced_escape) ~> EscapedGame

\* such a game over at least two rounds, ended, with a detective on the board
C3_Witness ==
  /\ PolicyGame
  /\ result.forced_escape
  /\ EscapedGame
  /\ Len(state.mrx_history) >= 2
  /\ Len(state.detective_positions) >= 1

(***************************************************************************)
(* C4  Round offset.  At every turn of Mr. X in a live game started from   *)
(* the solved start, with the round number already incremented to r, the   *)
(* key _policy_lookup_state builds has round r - 1, the solver's policy    *)
(* has that key and its move is one of the engine's valid moves; so        *)
(* PolicyStrategy never falls back to min(valid_moves) and never raises    *)
(* in strict mode, whether or not forced_escape holds.                     *)
(***************************************************************************)
C4_RoundOffset ==
  PolicyGame =>
    /\ pc = "play"
    /\ lookup \in {None, "hit"}
    /\ (Stepping /\ state.current_player = "mrx") =>
         LET s == [state EXCEPT !.round_number = @ + 1]
             valid == get_valid_moves(board, s.mrx_position, s.detective_positions)
             key == _policy_lookup_state(s)
         IN /\ key.round_number = s.round_number - 1
            /\ Has(result.policy, Key(key))
            /\ result.policy[Key(key)] \in Range(valid)

\* a strict lookup that hit in the second round or later of a game the solver
\* found no forced escape for
C4_Witness ==
  /\ PolicyGame
  /\ mrx_strategy.strict
  /\ ~result.forced_escape
  /\ lookup = "hit"
  /\ state.round_number >= 2

(***************************************************************************)
(* The table of a finished solve                                           *)
(***************************************************************************)
\* the reachable states at which Mr. X is to move and the game goes on
MrxToMove == {s \in Reach : s.current_player = "mrx" /\ ~Terminal(s)}

\* the moves of s whose successor has the verdict True
WinningMoves(s) ==
  {c[1] : c \in {d \in Range(_next_states(board, s)) : memo[Key(d[2])]}}

\* the move the tie-break prescribes for s
SmallestCandidate(s) ==
  IF WinningMoves(s) # {} THEN Min(WinningMoves(s)) ELSE Min(LegalMoves(s))

(***************************************************************************)
(* C5 as stated  Totality and tie-break.  After a solve with a positive    *)
(* max_rounds every state reachable from the start has a verdict, and      *)
(* every reachable state with Mr. X to move has a policy move, the         *)
(* smallest move whose successor has the verdict True if there is one and  *)
(* the smallest legal move otherwise.                                      *)
(***************************************************************************)
C5_TotalOnMrxStates ==
  (Solved /\ state.max_rounds >= 1) =>
    \A s \in Reach :
      /\ Has(memo, Key(s))
      /\ s.current_player = "mrx" =>
           /\ Has(result.policy, Key(s))
           /\ result.policy[Key(s)] = SmallestCandidate(s)

(***************************************************************************)
(* C5 amended  After a solve the states with a verdict are exactly the     *)
(* states reachable from the start, each with one boolean; the states      *)
(* with a policy move are exactly the reachable states with Mr. X to move  *)
(* that are not terminal, and a terminal state (Survived, Captured or      *)
(* Trapped) with Mr. X to move has a verdict and no policy move; the       *)
(* policy move is the smallest move whose successor has the verdict True   *)
(* if there is one and the smallest legal move otherwise.                  *)
(***************************************************************************)
C5_TotalOnNonTerminal ==
  Solved =>
    /\ DOMAIN memo = {Key(s) : s \in Reach}
    /\ \A s \in Reach : memo[Key(s)] \in BOOLEAN
    /\ DOMAIN result.policy = {Key(s) : s \in MrxToMove}
    /\ \A s \in MrxToMove : result.policy[Key(s)] = SmallestCandidate(s)
    /\ result.states_evaluated = Cardinality(Reach)

\* a solve with a state where the smallest winning move is not the smallest
\* legal move, a state with several moves none of which wins, and a Survived
\* state, which has no policy move
C5_Witness ==
  /\ Solved
  /\ \E s \in MrxToMove :
       WinningMoves(s) # {} /\ Min(WinningMoves(s)) > Min(LegalMoves(s))
  /\ \E s \in MrxToMove :
       WinningMoves(s) = {} /\ Cardinality(LegalMoves(s)) >= 2
  /\ \E s \in Reach : Survived(s) /\ ~Has(result.policy, Key(s))

(***************************************************************************)
(* Two runs of the solve on the same board and start: the earlier one is   *)
(* prev[1], the later one the current run                                  *)
(***************************************************************************)
SolvedTwice == Solved /\ prev # <<>>

(***************************************************************************)
(* C6 as stated  Monotonicity.  For the same board and start, when the     *)
(* solve returns forced_escape = True with max_rounds = m >= 1 it returns  *)
(* True with every larger max_rounds.                                      *)
(***************************************************************************)
C6_TrueStaysTrue ==
  (SolvedTwice /\ prev[1].argv.max_rounds >= 1
     /\ argv.max_rounds > prev[1].argv.max_rounds
     /\ prev[1].result.forced_escape)
    => result.forced_escape

(***************************************************************************)
(* C6 amended  For the same board and start, when the solve returns        *)
(* forced_escape = True with max_rounds = m' it returns True with every    *)
(* smaller max_rounds m < m': increasing max_rounds never turns a False    *)
(* verdict into True, and it can turn a True verdict into False.           *)
(***************************************************************************)
C6_FalseStaysFalse ==
  (SolvedTwice /\ argv.max_rounds > prev[1].argv.max_rounds
     /\ result.forced_escape)
    => prev[1].result.forced_escape

\* a verdict that stays True under a larger positive max_rounds on a board
\* with a detective
C6_Witness ==
  /\ SolvedTwice
  /\ prev[1].argv.max_rounds >= 1
  /\ argv.max_rounds > prev[1].argv.max_rounds
  /\ Len(state.detective_positions) >= 1
  /\ result.forced_escape
  /\ prev[1].result.forced_escape

(***************************************************************************)
(* C7 as stated  A solve with max_rounds zero or negative is rejected      *)
(* before the search begins: main does not get past the validation, and    *)
(* no verdict, policy or states_evaluated is produced.                     *)
(***************************************************************************)
C7_NonPositiveRejected ==
  (argv.policy_file = <<>> /\ argv.max_rounds <= 0) =>
    /\ pc \in {"main", "exit"}
    /\ result = NoResult

(***************************************************************************)
(* C8  Invalid starts.  The start positions main takes from the command    *)
(* line, or from the policy file when one is loaded                        *)
(***************************************************************************)
StartPositions ==
  IF argv.policy_file # <<>>
  THEN <<argv.policy_file[1].mrx_start>> \o argv.policy_file[1].detective_starts
  ELSE <<argv.mrx>> \o argv.detectives

OnBoardAndDistinct(pos) ==
  /\ \A i \in 1..Len(pos) : pos[i] \in Range(board.nodes)
  /\ \A i, j \in 1..Len(pos) : i # j => pos[i] # pos[j]

Positions(s) == <<s.mrx_position>> \o s.detective_positions

(***************************************************************************)
(* C8  When Mr. X or a detective starts off the board, or two of them      *)
(* start on the same node, main exits before the solver or the engine is   *)
(* invoked: no GameState, result or strategy exists.  The solver and the   *)
(* engine are only started on starts that are on the board and pairwise    *)
(* distinct, also when the start comes from a loaded policy file.          *)
(***************************************************************************)
C8_InvalidStartRejected ==
  /\ (pc # "main" /\ ~OnBoardAndDistinct(StartPositions)) =>
       /\ pc = "exit"
       /\ state = NoGameState
       /\ result = NoResult
       /\ mrx_strategy = NoStrategy
  /\ pc \in {"solve", "done"} =>
       /\ Positions(state) = StartPositions
       /\ OnBoardAndDistinct(Positions(start))
  /\ (EngineBuilt /\ state.round_number = 0 /\ state.current_player = "mrx") =>
       /\ Positions(state) = StartPositions
       /\ OnBoardAndDistinct(Positions(state))

\* main has exited on the start of a policy file, loaded in the mode auto
\* without disagreeing flags, in which a detective is off the board and two
\* actors share a node
C8_Witness ==
  /\ pc = "exit"
  /\ argv.policy_file # <<>>
  /\ argv.mode = "auto"
  /\ ~argv.flags
  /\ \E i \in 1..Len(StartPositions) : StartPositions[i] \notin Range(board.nodes)
  /\ \E i, j \in 1..Len(StartPositions) :
       i # j /\ StartPositions[i] = StartPositions[j]

(***************************************************************************)
(* C9  Termination of the solver.  While the recursion runs, the states    *)
(* being evaluated are in strictly increasing turn order, so none is       *)
(* re-entered; each with Mr. X to move has round_number < max_rounds,      *)
(* since one with round_number >= max_rounds is terminal; every child is   *)
(* later in the turn order than its parent, and a full cycle of the        *)
(* actors increases round_number by one.  And the recursion terminates:    *)
(* a solve that has started returns.                                       *)
(***************************************************************************)
C9_SolverTerminates ==
  /\ [](pc = "solve" =>
          /\ \A i \in 1..Len(stack) :
               /\ stack[i].state.current_player = "mrx"
                    => stack[i].state.round_number < state.max_rounds
               /\ stack[i].state.round_number <= state.max_rounds
               /\ \A k \in 1..Len(stack[i].children) :
                    /\ Rank(stack[i].children[k][2]) = Rank(stack[i].state) + 1
                    /\ stack[i].children[k][2].round_number
                         = stack[i].state.round_number
                             + (IF stack[i].state.current_player = "mrx"
                                THEN 1 ELSE 0)
          /\ \A i, j \in 1..Len(stack) :
               i < j => /\ Rank(stack[i].state) < Rank(stack[j].state)
                        /\ Key(stack[i].state) # Key(stack[j].state)
          /\ Calling => \A i \in 1..Len(stack) : Key(Callee) # Key(stack[i].state))
  /\ (pc = "solve") ~> (pc = "done")

\* a solve that has returned after a recursion at least 2 * MaxRounds deep
\* over more than 20 states
C9_Witness ==
  /\ Solved
  /\ state.max_rounds = MaxRounds
  /\ Len(state.detective_positions) >= 1
  /\ result.states_evaluated > 20
  /\ \E s \in Reach : Rank(s) - Rank(start) >= 2 * MaxRounds

Classification(b, s, max_rounds) ==
  IF \E k \in 1..Len(s.detective_positions) :
       s.detective_positions[k] = s.mrx_position
  THEN "Captured"
  ELSE IF s.current_player = "mrx" /\ s.round_number >= max_rounds
  THEN "Survived"
  ELSE IF s.current_player = "mrx"
          /\ \A n \in neighbors(b, s.mrx_position) :
               \E k \in 1..Len(s.detective_positions) : s.detective_positions[k] = n
  THEN "Trapped"
  ELSE "NonTerminal"

\* what _is_terminal returns for a class
TerminalOf(c) == <<c # "NonTerminal", c = "Survived">>

(***************************************************************************)
(* C11  Terminal priority.  _is_terminal classifies every state the        *)
(* recursion is called on, and every state reachable from the start, in    *)
(* the order Captured (terminal, Mr. X loses, also at round_number >=      *)
(* max_rounds on his turn), Survived (terminal, Mr. X wins, also without   *)
(* a legal move), Trapped (terminal, Mr. X loses); every other state is    *)
(* not terminal.  _check_game_over of the engine sets game_over and        *)
(* mrx_caught by the same order and leaves a state of no class unchanged.  *)
(***************************************************************************)
C11_TerminalPriority ==
  /\ Calling =>
       _is_terminal(board, Callee, state.max_rounds)
         = TerminalOf(Classification(board, Callee, state.max_rounds))
  /\ Solved =>
       \A s \in Reach :
         /\ _is_terminal(board, s, state.max_rounds)
              = TerminalOf(Classification(board, s, state.max_rounds))
         /\ (s.current_player # "mrx"
               /\ Classification(board, s, state.max_rounds) # "Captured")
              => ~Terminal(s)
  /\ pc = "play" =>
       LET c == Classification(board, state, state.max_rounds)
           g == _check_game_over(board, state)
       IN IF c = "NonTerminal"
          THEN g = state
          ELSE g = [state EXCEPT !.game_over = TRUE,
                                 !.mrx_caught = (c # "Survived")]

\* a solve over at least one round that reaches a state captured on Mr. X's
\* turn at the round cap, and a Survived state in which Mr. X has no legal move
C11_Witness ==
  /\ Solved
  /\ state.max_rounds >= 1
  /\ \E s \in Reach :
       /\ s.current_player = "mrx"
       /\ s.round_number >= state.max_rounds
       /\ s.mrx_position \in Range(s.detective_positions)
       /\ _is_terminal(board, s, state.max_rounds) = <<TRUE, FALSE>>
  /\ \E s \in Reach :
       /\ Survived(s)
       /\ LegalMoves(s) = {}

(***************************************************************************)
(* The call of choose_move a policy class is about to get: Mr. X is to     *)
(* move in a live game, the engine has incremented the round number        *)
(***************************************************************************)
PolicyClass == mrx_strategy.kind \in {"PolicyStrategy", "SerializedPolicyStrategy"}

MrxLookupDue == Stepping /\ state.current_player = "mrx" /\ PolicyClass

\* the state and the valid moves the engine passes
LiveState == [state EXCEPT !.round_number = @ + 1]
LiveValid == get_valid_moves(board, LiveState.mrx_position,
                             LiveState.detective_positions)

\* the policy's entry for the reconciled key of gs: <<move>>, or <<>>
Entry(self, gs) ==
  IF self.kind = "PolicyStrategy"
  THEN IF Key(_policy_lookup_state(gs)) \in DOMAIN self.policy
       THEN <<self.policy[Key(_policy_lookup_state(gs))]>> ELSE <<>>
  ELSE IF FormatKey(_policy_lookup_state(gs)) \in DOMAIN self.serialized_policy
       THEN <<self.serialized_policy[FormatKey(_policy_lookup_state(gs))]>>
       ELSE <<>>

\* the entry is usable: present and among the valid moves
Usable(entry, valid_moves) ==
  entry # <<>> /\ \E k \in 1..Len(valid_moves) : valid_moves[k] = entry[1]

(***************************************************************************)
(* C12  Lookup without strict.  choose_move of PolicyStrategy and of       *)
(* SerializedPolicyStrategy with strict = False returns the policy's       *)
(* entry for the reconciled key when the entry is among valid_moves, and   *)
(* the smallest valid move when the key is absent or the stored move is    *)
(* not valid; the move returned is among valid_moves, so the engine never  *)
(* raises.                                                                 *)
(***************************************************************************)
C12_NonStrictLookup ==
  (PolicyClass /\ ~mrx_strategy.strict) =>
    /\ pc = "play"
    /\ lookup \in {None, "hit", "fallback"}
    /\ MrxLookupDue =>
         \A c \in choose_move(mrx_strategy, LiveState, LiveValid) :
           LET entry == Entry(mrx_strategy, LiveState)
           IN /\ LiveValid # <<>>
              /\ c.move \in Range(LiveValid)
              /\ Usable(entry, LiveValid) => c.move = entry[1] /\ c.lookup = "hit"
              /\ ~Usable(entry, LiveValid) =>
                   /\ c.move = Min(Range(LiveValid))
                   /\ c.lookup = "fallback"

\* the first move of a game was the fallback although the policy has an entry
\* for the start: the stored move was not valid
C12_Witness ==
  /\ pc = "play"
  /\ mrx_strategy.kind = "SerializedPolicyStrategy"
  /\ ~mrx_strategy.strict
  /\ lookup = "fallback"
  /\ state.mrx_history = <<state.mrx_position>>
  /\ state.current_player = "detective_0"
  /\ LET k == FormatKey(SolverState(0, "mrx", StartPositions[1],
                                    Tail(StartPositions)))
     IN /\ k \in DOMAIN mrx_strategy.serialized_policy
        /\ mrx_strategy.serialized_policy[k] # state.mrx_position

(***************************************************************************)
(* C13  Lookup with strict.  With strict = True, when the reconciled key   *)
(* has no entry or the stored move is not among valid_moves, choose_move   *)
(* raises KeyError and no move is made; it never returns the fallback      *)
(* min(valid_moves).  The raise leaves the strategy and its policy as      *)
(* they were and the live state as the engine passed it (round_number      *)
(* incremented, positions and history untouched).                          *)
(***************************************************************************)
C13_StrictLookup ==
  /\ []((PolicyClass /\ mrx_strategy.strict) =>
          /\ lookup \in {None, "hit", "KeyError"}
          /\ MrxLookupDue =>
               \A c \in choose_move(mrx_strategy, LiveState, LiveValid) :
                 LET entry == Entry(mrx_strategy, LiveState)
                 IN /\ Usable(entry, LiveValid) =>
                         c.move = entry[1] /\ c.lookup = "hit"
                    /\ ~Usable(entry, LiveValid) => c.lookup = "KeyError")
  /\ [](pc = "KeyError" =>
          /\ PolicyClass
          /\ mrx_strategy.strict
          /\ lookup = "KeyError"
          /\ ~state.game_over
          /\ state.current_player = "mrx"
          /\ Len(state.mrx_history) = state.round_number - 1)
  /\ [][pc' = "KeyError" =>
          /\ MrxLookupDue
          /\ ~Usable(Entry(mrx_strategy, LiveState), LiveValid)
          /\ mrx_strategy' = mrx_strategy
          /\ state' = LiveState]_vars

\* KeyError in the second round or later of a game
C13_Witness ==
  /\ pc = "KeyError"
  /\ mrx_strategy.strict
  /\ state.round_number >= 2
  /\ Len(state.detective_positions) >= 1

(***************************************************************************)
(* The policy of the solve and its serialized form, and the live states    *)
(* and valid-move lists the two strategies are compared on: the state of   *)
(* the game, with the round number as it is and incremented, with the      *)
(* actor as it is and Mr. X, with the detectives in their order and in     *)
(* the reverse order; the valid moves with and without the exclusion of    *)
(* the detectives' nodes, and without their first member                   *)
(***************************************************************************)
Reverse(seq) == [k \in 1..Len(seq) |-> seq[Len(seq) + 1 - k]]

LiveStates ==
  {[state EXCEPT !.round_number = @ + d, !.current_player = p,
                 !.detective_positions = dp]
     : d \in {0, 1}, p \in {state.current_player, "mrx"},
       dp \in {state.detective_positions, Reverse(state.detective_positions)}}

ValidLists(gs) ==
  LET v == get_valid_moves(board, gs.mrx_position, gs.detective_positions)
      w == get_valid_moves(board, gs.mrx_position, <<>>)
  IN {l \in {v, w, IF v = <<>> THEN v ELSE Tail(v)} : l # <<>>}

\* the solve whose policy the game is played with is the one in result
GameOfSolve == EngineBuilt /\ argv.policy_file = <<>>

(***************************************************************************)
(* C14  Serialized equivalence.  With P the policy of a solve and S the    *)
(* policy with each key written as r=..|p=..|x=..|d=.., for every live     *)
(* state and list of valid moves SerializedPolicyStrategy(S) returns the   *)
(* move PolicyStrategy(P) returns, or raises KeyError when it does, with   *)
(* either setting of strict.  The encoding is injective: states that       *)
(* differ in round, actor, Mr. X's node or the order of the detectives     *)
(* get different strings, and S has as many entries as P.                  *)
(***************************************************************************)
C14_SerializedEquivalence ==
  GameOfSolve =>
    LET P == result.policy
        S == Serialize(P)
        keys == DOMAIN P \cup {Key(_policy_lookup_state(gs)) : gs \in LiveStates}
    IN /\ Cardinality(DOMAIN S) = Cardinality(DOMAIN P)
       /\ \A k \in DOMAIN P : S[FormatKey(k)] = P[k]
       /\ Cardinality({FormatKey(k) : k \in keys}) = Cardinality(keys)
       /\ \A gs \in LiveStates : \A valid \in ValidLists(gs) : \A strict \in BOOLEAN :
            SerializedPolicyStrategy_choose_move(
                Strategy("SerializedPolicyStrategy", <<>>, S, strict), gs, valid)
              = PolicyStrategy_choose_move(
                  Strategy("PolicyStrategy", P, <<>>, strict), gs, valid)
       /\ mrx_strategy.kind = "SerializedPolicyStrategy" =>
            mrx_strategy.serialized_policy = S

\* a game played with the serialized policy of the solve in which a lookup
\* hit in the second round or later, with two detectives not in ascending
\* order, from a state that also has a live state the policy has no entry for
C14_Witness ==
  /\ GameOfSolve
  /\ pc = "play"
  /\ mrx_strategy.kind = "SerializedPolicyStrategy"
  /\ lookup = "hit"
  /\ state.round_number >= 2
  /\ Len(state.detective_positions) = 2
  /\ state.detective_positions[1] > state.detective_positions[2]
  /\ \E gs \in LiveStates :
       Key(_policy_lookup_state(gs)) \notin DOMAIN result.policy

(***************************************************************************)
(* The nodes and excluded lists legal moves are asked for: every node id   *)
(* of the bound and one below and one above, so also nodes that are not    *)
(* on the board; no excluded node, the detectives' nodes, Mr. X's node,    *)
(* and all of them                                                         *)
(***************************************************************************)
NodeIds == 0..(MaxNode + 1)

ExcludedLists ==
  {<<>>, state.detective_positions, <<state.mrx_position>>, Positions(state)}

(***************************************************************************)
(* C15  Legal moves.  _valid_moves of the solver and get_valid_moves of    *)
(* the engine return the same sequence for the same board, node and        *)
(* excluded nodes: exactly the neighbours of the node that are not         *)
(* excluded, each once, in strictly ascending order; with no excluded      *)
(* node all neighbours, and for a node that is not on the board the empty  *)
(* sequence.                                                               *)
(***************************************************************************)
C15_LegalMoves ==
  \A node \in NodeIds : \A excluded \in ExcludedLists :
    LET r == _valid_moves(board, node, Range(excluded))
        e == get_valid_moves(board, node, excluded)
    IN /\ r = e
       /\ Range(r) = neighbors(board, node) \ Range(excluded)
       /\ \A i \in 1..(Len(r) - 1) : r[i] < r[i + 1]
       /\ ~has_node(board, node) => r = <<>>
       /\ excluded = <<>> => Range(r) = neighbors(board, node)

\* Mr. X is to move in a live game from a node with three neighbours or more,
\* one of them taken by a detective and two or more left to move to
C15_Witness ==
  /\ Stepping
  /\ state.current_player = "mrx"
  /\ Cardinality(neighbors(board, state.mrx_position)) >= 3
  /\ \E k \in 1..Len(state.detective_positions) :
       state.detective_positions[k] \in neighbors(board, state.mrx_position)
  /\ Len(get_valid_moves(board, state.mrx_position, state.detective_positions)) >= 2

(***************************************************************************)
(* C16  The path scenario.  On the board with the edges (1,2), (2,3),      *)
(* with Mr. X at 1, one detective at 3 and max_rounds = 5, the solve       *)
(* returns forced_escape = False: Mr. X's only move is to 2, the           *)
(* detective's only move from 3 is to 2, and that state is Captured, so    *)
(* three states are evaluated.                                             *)
(***************************************************************************)
PathScenario ==
  /\ Solved
  /\ board.edges = << <<1, 2>>, <<2, 3>> >>
  /\ start = SolverState(0, "mrx", 1, <<3>>)
  /\ state.max_rounds = 5

C16_PathScenario ==
  PathScenario =>
    LET s1 == SolverState(1, "detective_0", 2, <<3>>)
        s2 == SolverState(1, "mrx", 2, <<2>>)
    IN /\ ~result.forced_escape
       /\ LegalMoves(start) = {2}
       /\ Succ(start) = {s1}
       /\ LegalMoves(s1) = {2}
       /\ Succ(s1) = {s2}
       /\ _is_terminal(board, s2, state.max_rounds) = <<TRUE, FALSE>>
       /\ Classification(board, s2, state.max_rounds) = "Captured"
       /\ Reach = {start, s1, s2}
       /\ result.states_evaluated = 3
       /\ result.policy = (Key(start) :> 2)

\* the solve of the scenario has returned
C16_Witness == PathScenario /\ result.states_evaluated >= 1

(***************************************************************************)
(* C17  The scenario without detectives.  On the board with the single     *)
(* edge (1,2), with Mr. X at 1, no detective and max_rounds = 1, the       *)
(* actor after Mr. X's move is Mr. X again, the state at round 1 is        *)
(* terminal by Survived, the solve returns forced_escape = True, and the   *)
(* policy has exactly one entry: (round 0, Mr. X to move, Mr. X at 1, no   *)
(* detectives) -> 2.                                                       *)
(***************************************************************************)
NoDetectiveScenario ==
  /\ Solved
  /\ board.edges = << <<1, 2>> >>
  /\ start = SolverState(0, "mrx", 1, <<>>)
  /\ state.max_rounds = 1

C17_NoDetectiveScenario ==
  NoDetectiveScenario =>
    LET s1 == SolverState(1, "mrx", 2, <<>>)
    IN /\ _next_states(board, start) = << <<2, s1>> >>
       /\ s1.current_player = "mrx"
       /\ _is_terminal(board, s1, state.max_rounds) = <<TRUE, TRUE>>
       /\ Classification(board, s1, state.max_rounds) = "Survived"
       /\ result.forced_escape
       /\ DOMAIN result.policy = {Key(start)}
       /\ result.policy[Key(start)] = 2
       /\ result.states_evaluated = 2

\* the solve of the scenario has returned with a policy
C17_Witness == NoDetectiveScenario /\ result.policy # <<>>

(***************************************************************************)
(* C18  Board.  After construction from an edge list, before and after a   *)
(* solve has used the board, the adjacency is                              *)
(* symmetric: v is in neighbors(u) exactly when u is in neighbors(v);      *)
(* both endpoints of every edge satisfy has_node, are in nodes and are     *)
(* neighbours of each other; and an edge list with edges repeated, in      *)
(* the same or the other orientation, gives the same neighbour sets and    *)
(* the same nodes as the list without the repetition.                      *)
(***************************************************************************)
Flip(edges) == [k \in 1..Len(edges) |-> <<edges[k][2], edges[k][1]>>]

C18_BoardSymmetric ==
  pc \in {"main", "done"} =>
    /\ board = Board(board.edges)
    /\ \A u, v \in NodeIds :
         v \in neighbors(board, u) <=> u \in neighbors(board, v)
    /\ \A k \in 1..Len(board.edges) :
         LET u == board.edges[k][1]
             v == board.edges[k][2]
         IN /\ has_node(board, u) /\ has_node(board, v)
            /\ u \in Range(board.nodes) /\ v \in Range(board.nodes)
            /\ v \in neighbors(board, u) /\ u \in neighbors(board, v)
    /\ \A n \in NodeIds : has_node(board, n) <=> n \in Range(board.nodes)
    /\ \A again \in {board.edges \o board.edges,
                     board.edges \o Flip(board.edges),
                     Append(board.edges, board.edges[1]),
                     <<Flip(board.edges)[Len(board.edges)]>> \o board.edges} :
         /\ Board(again).adjacency = board.adjacency
         /\ Board(again).nodes = board.nodes

\* a board a solve has run on whose edge list holds an edge twice, once in
\* each orientation, and a node with three neighbours
C18_Witness ==
  /\ pc = "done"
  /\ \E i, j \in 1..Len(board.edges) :
       /\ i # j
       /\ board.edges[i] = <<board.edges[j][2], board.edges[j][1]>>
  /\ \E n \in NodeIds : Cardinality(neighbors(board, n)) >= 3

(***************************************************************************)
(* C19  Evader successor shape.  For every state the solver calls          *)
(* can_mrx_force_win on, and every state it has expanded, in which Mr. X   *)
(* is to move, _next_states yields exactly one successor per legal move of *)
(* Mr. X (the neighbours of his node minus every detective node), each     *)
(* with round_number increased by exactly 1, current_player detective_0    *)
(* (mrx when there are no detectives), Mr. X at the chosen node and the    *)
(* detective positions unchanged; with no legal move the list is empty.    *)
(* The children an activation iterates over are that list.                 *)
(***************************************************************************)
MrxSuccessorShape(s, succ) ==
  LET legal == neighbors(board, s.mrx_position) \ Range(s.detective_positions)
  IN /\ Len(succ) = Cardinality(legal)
     /\ {succ[k][1] : k \in 1..Len(succ)} = legal
     /\ legal = {} => succ = <<>>
     /\ \A k \in 1..Len(succ) :
          /\ succ[k][2].round_number = s.round_number + 1
          /\ succ[k][2].current_player =
               (IF Len(s.detective_positions) = 0 THEN "mrx" ELSE "detective_0")
          /\ succ[k][2].mrx_position = succ[k][1]
          /\ succ[k][2].detective_positions = s.detective_positions

C19_MrxSuccessors ==
  /\ (Calling /\ Callee.current_player = "mrx")
       => MrxSuccessorShape(Callee, _next_states(board, Callee))
  /\ (pc = "solve" /\ stack # <<>> /\ Top.state.current_player = "mrx")
       => MrxSuccessorShape(Top.state, Top.children)

\* the solver has expanded a state of Mr. X with two legal moves and a
\* neighbour a detective stands on, and is calling on a state in which Mr. X
\* has neighbours but no legal move
C19_Witness ==
  /\ Calling
  /\ stack # <<>>
  /\ Callee.current_player = "mrx"
  /\ neighbors(board, Callee.mrx_position) # {}
  /\ Callee.mrx_position \notin Range(Callee.detective_positions)
  /\ _next_states(board, Callee) = <<>>
  /\ \E k \in 1..Len(stack) :
       /\ stack[k].state.current_player = "mrx"
       /\ Len(stack[k].children) >= 2
       /\ neighbors(board, stack[k].state.mrx_position)
            \cap Range(stack[k].state.detective_positions) # {}

(***************************************************************************)
(* C20  Pursuer successor frame.  Every successor _next_states gives for a *)
(* state in which detective k is to move (a state the solver calls         *)
(* can_mrx_force_win on, a state it has expanded, the state of a game in   *)
(* play) has the same round_number, the same position of Mr. X and the     *)
(* same position for every detective other than k, and current_player is   *)
(* detective k+1 when k is not the last detective and mrx when it is.  A   *)
(* call of step that runs _step_detective changes the game state within    *)
(* the same frame.                                                         *)
(***************************************************************************)
DetectiveFrame(s, t) ==
  LET n == Len(s.detective_positions)
      k == player_index(s.current_player, n)
  IN /\ t.round_number = s.round_number
     /\ t.mrx_position = s.mrx_position
     /\ Len(t.detective_positions) = n
     /\ \A i \in (0..(n - 1)) \ {k} :
          t.detective_positions[i + 1] = s.detective_positions[i + 1]
     /\ t.current_player = (IF k + 1 < n THEN detective(k + 1) ELSE "mrx")

DetectiveSuccessorFrame(s, succ) ==
  /\ succ # <<>>
  /\ \A j \in 1..Len(succ) : DetectiveFrame(s, succ[j][2])

C20_SolverFrame ==
  /\ (Calling /\ Callee.current_player # "mrx")
       => DetectiveSuccessorFrame(Callee, _next_states(board, Callee))
  /\ (pc = "solve" /\ stack # <<>> /\ Top.state.current_player # "mrx")
       => DetectiveSuccessorFrame(Top.state, Top.children)
  /\ (pc = "play" /\ state.current_player # "mrx")
       => DetectiveSuccessorFrame(from_game_state(state),
                                  _next_states(board, from_game_state(state)))

C20_EngineFrame ==
  (Stepping /\ state.current_player # "mrx" /\ state' # state)
    => DetectiveFrame(state, state')

C20_DetectiveFrame == [] C20_SolverFrame /\ [][C20_EngineFrame]_vars

\* in a game of two detectives in play, detective 0 has moved to another node
\* and detective 1, who has two successors, is to move
C20_Witness ==
  /\ pc = "play"
  /\ ~state.game_over
  /\ state.current_player = "detective_1"
  /\ state.round_number >= 1
  /\ argv.policy_file = <<>>
  /\ state.detective_positions[1] # argv.detectives[1]
  /\ Len(_next_states(board, from_game_state(state))) >= 2

(***************************************************************************)
(* C21  A state in which detective k is to move always has a successor.    *)
(* The destinations _next_states gives are exactly the neighbours of       *)
(* detective k's node that no other detective stands on (Mr. X's node is   *)
(* one of them when it is adjacent); when there is none, the state has     *)
(* exactly one successor, in which detective k stays on its node and the   *)
(* turn passes on.  A call of step that runs _step_detective puts the      *)
(* detective on one of those destinations, or leaves it where it is when   *)
(* there is none, and passes the turn on.                                  *)
(***************************************************************************)
\* the nodes detective k of state s can move to
DetectiveDestinations(s) ==
  LET n == Len(s.detective_positions)
      k == player_index(s.current_player, n)
  IN neighbors(board, s.detective_positions[k + 1])
       \ {s.detective_positions[i + 1] : i \in (0..(n - 1)) \ {k}}

NextPlayer(s) ==
  LET n == Len(s.detective_positions)
      k == player_index(s.current_player, n)
  IN IF k + 1 < n THEN detective(k + 1) ELSE "mrx"

DetectiveSuccessorShape(s, succ) ==
  LET n == Len(s.detective_positions)
      k == player_index(s.current_player, n)
      from_node == s.detective_positions[k + 1]
      others == {s.detective_positions[i + 1] : i \in (0..(n - 1)) \ {k}}
      dests == DetectiveDestinations(s)
      moves == {succ[j][1] : j \in 1..Len(succ)}
  IN /\ Len(succ) >= 1
     /\ Len(succ) = Cardinality(moves)
     /\ moves = (IF dests = {} THEN {from_node} ELSE dests)
     /\ \A j \in 1..Len(succ) :
          succ[j][2].detective_positions =
            [s.detective_positions EXCEPT ![k + 1] = succ[j][1]]
     /\ (s.mrx_position \in neighbors(board, from_node) \ others)
          => s.mrx_position \in moves
     /\ dests = {} =>
          /\ Len(succ) = 1
          /\ succ[1][2].detective_positions = s.detective_positions
          /\ succ[1][2].current_player = NextPlayer(s)

C21_SolverMoves ==
  /\ (Calling /\ Callee.current_player # "mrx")
       => DetectiveSuccessorShape(Callee, _next_states(board, Callee))
  /\ (pc = "solve" /\ stack # <<>> /\ Top.state.current_player # "mrx")
       => DetectiveSuccessorShape(Top.state, Top.children)
  /\ (pc = "play" /\ state.current_player # "mrx")
       => DetectiveSuccessorShape(from_game_state(state),
                                  _next_states(board, from_game_state(state)))

C21_EngineMove ==
  (Stepping /\ state.current_player # "mrx" /\ state' # state)
    => LET k == player_index(state.current_player, Len(state.detective_positions))
           dests == DetectiveDestinations(state)
       IN /\ state'.detective_positions[k + 1] \in
               (IF dests = {} THEN {state.detective_positions[k + 1]} ELSE dests)
          /\ state'.current_player = NextPlayer(state)

C21_DetectiveMoves == [] C21_SolverMoves /\ [][C21_EngineMove]_vars

\* in a game in play detective 0, whose neighbours are all taken by
\* detective 1, has stayed on its node, and detective 1 is to move with
\* Mr. X on a neighbour of its node
C21_Witness ==
  /\ pc = "play"
  /\ ~state.game_over
  /\ state.current_player = "detective_1"
  /\ state.round_number >= 1
  /\ neighbors(board, state.detective_positions[1]) # {}
  /\ neighbors(board, state.detective_positions[1]) \subseteq {state.detective_positions[2]}
  /\ state.mrx_position \in neighbors(board, state.detective_positions[2])

(***************************************************************************)
(* C22  Local minimax recurrence.  When the solve has returned, the memo   *)
(* entry of every evaluated terminal state is the terminal outcome, that   *)
(* of every evaluated non-terminal state with a detective to move is the   *)
(* conjunction of the memo entries of all its successors, and that of      *)
(* every evaluated non-terminal state with Mr. X to move is the            *)
(* disjunction of the memo entries of all its successors; every successor  *)
(* of an evaluated non-terminal state is evaluated.                        *)
(***************************************************************************)
C22_LocalRecurrence ==
  Solved =>
    \A s \in DOMAIN memo :
      IF Terminal(s) THEN memo[s] = MrxWins(s)
      ELSE /\ \A t \in Succ(s) : Has(memo, Key(t))
           /\ IF s.current_player = "mrx"
              THEN memo[s] <=> \E t \in Succ(s) : memo[Key(t)]
              ELSE memo[s] <=> \A t \in Succ(s) : memo[Key(t)]

\* a finished solve that evaluated a detective state and a state of Mr. X
\* whose successors have both verdicts, and terminal states of both outcomes
C22_Witness ==
  /\ Solved
  /\ \E s \in DOMAIN memo :
       /\ ~Terminal(s) /\ s.current_player # "mrx"
       /\ \E t, u \in Succ(s) : memo[Key(t)] /\ ~memo[Key(u)]
  /\ \E s \in DOMAIN memo :
       /\ ~Terminal(s) /\ s.current_player = "mrx"
       /\ \E t, u \in Succ(s) : memo[Key(t)] /\ ~memo[Key(u)]
  /\ \E s, t \in DOMAIN memo :
       Terminal(s) /\ Terminal(t) /\ memo[s] /\ ~memo[t]

(***************************************************************************)
(* C23  Policy domain.  During the solve and when it has returned, the     *)
(* keys of the policy are exactly the evaluated states in which Mr. X is   *)
(* to move and that are not terminal: no state with a detective to move    *)
(* and no terminal state (Captured, Survived or Trapped) has an entry.     *)
(* Every policy value is a legal move of Mr. X from its key state: a       *)
(* neighbour of his node that no detective stands on.  The policy returned *)
(* is the policy built.                                                    *)
(***************************************************************************)
C23_PolicyDomain ==
  pc \in {"solve", "done"} =>
    /\ DOMAIN policy =
         {s \in DOMAIN memo : s.current_player = "mrx" /\ ~Terminal(s)}
    /\ \A s \in DOMAIN policy :
         policy[s] \in neighbors(board, s.mrx_position)
                         \ Range(s.detective_positions)
    /\ Solved => result.policy = policy

\* a finished solve with policy entries, that evaluated states with a
\* detective to move, a Survived state in which Mr. X has a legal move, and a
\* Trapped state
C23_Witness ==
  /\ Solved
  /\ Cardinality(DOMAIN result.policy) >= 2
  /\ \E s \in DOMAIN memo : s.current_player # "mrx" /\ ~Terminal(s)
  /\ \E s \in DOMAIN memo : Survived(s) /\ LegalMoves(s) # {}
  /\ \E s \in DOMAIN memo :
       s.current_player = "mrx" /\ Lost(s)
         /\ s.mrx_position \notin Range(s.detective_positions)

(***************************************************************************)
(* C24  Each state is evaluated at most once per solve.  While the solve   *)
(* runs, no state whose evaluation is in progress has a memo entry, no     *)
(* two evaluations in progress are of the same state, and the state the    *)
(* recursion is called on is not one whose evaluation is in progress, so   *)
(* the test of line 168 never meets a key before its write.  A step of the *)
(* solve keeps every memo entry as it is and writes at most one new entry, *)
(* for a key that had none: the terminal state called on, or the state     *)
(* whose evaluation returns.                                               *)
(***************************************************************************)
InProgress == {Key(stack[i].state) : i \in 1..Len(stack)}

C24_NoEntryInProgress ==
  pc = "solve" =>
    /\ \A i \in 1..Len(stack) : ~Has(memo, Key(stack[i].state))
    /\ Cardinality(InProgress) = Len(stack)
    /\ Calling => Key(Callee) \notin InProgress

C24_WrittenOnce ==
  (pc = "solve" /\ pc' \in {"solve", "done"}) =>
    /\ \A k \in DOMAIN memo : Has(memo', k) /\ memo'[k] = memo[k]
    /\ Cardinality(DOMAIN memo' \ DOMAIN memo) <= 1
    /\ \A k \in DOMAIN memo' \ DOMAIN memo :
         IF Returning THEN k = Key(Top.state) ELSE k = Key(Callee)

C24_EvaluatedOnce == [] C24_NoEntryInProgress /\ [][C24_WrittenOnce]_vars

\* the recursion, three activations deep with entries in the memo, is called
\* on a state that has an entry
C24_Witness ==
  /\ Calling
  /\ Len(stack) >= 3
  /\ Cardinality(DOMAIN memo) >= 3
  /\ Has(memo, Key(Callee))

(***************************************************************************)
(* C25  The search is exhaustive, without short-circuit.  When the solve   *)
(* has returned, the memo holds exactly the states reachable from the      *)
(* start by successors of non-terminal states, and states_evaluated is     *)
(* the number of those states: every move of Mr. X is expanded also after  *)
(* a winning one, every detective move also after a losing one.  An        *)
(* activation returns only when it has a result for each of its children.  *)
(***************************************************************************)
C25_Exhaustive ==
  /\ Solved =>
       /\ DOMAIN memo = {Key(s) : s \in Reach}
       /\ result.states_evaluated = Cardinality(Reach)
  /\ (pc = "solve" /\ stack # <<>>) =>
       /\ Len(Top.results) = Top.i - 1
       /\ Top.i <= Len(Top.children) + 1

\* a finished solve that evaluated a state of Mr. X whose smallest move wins
\* and that has a larger move, and a detective state whose first child is
\* lost for Mr. X and whose second child is the successor of no state
\* earlier in the turn order
C25_Witness ==
  /\ Solved
  /\ \E s \in DOMAIN memo :
       /\ ~Terminal(s) /\ s.current_player = "mrx"
       /\ LET c == _next_states(board, s)
          IN Len(c) >= 2 /\ memo[Key(c[1][2])]
  /\ \E s \in DOMAIN memo :
       /\ ~Terminal(s) /\ s.current_player # "mrx"
       /\ LET c == _next_states(board, s)
          IN Len(c) >= 2 /\ ~memo[Key(c[1][2])]
               /\ \A t \in DOMAIN memo :
                    Rank(t) < Rank(s) => Key(c[2][2]) \notin {Key(u) : u \in Succ(t)}

(***************************************************************************)
(* C26  The state graph is acyclic.  Along every transition _next_states   *)
(* gives from a state reachable from the start, round_number never         *)
(* decreases: it increases by exactly 1 when Mr. X moves and stays equal   *)
(* when a detective moves; the pair of round_number and the actor's phase  *)
(* (detective 0 < ... < the last detective < Mr. X) strictly increases;    *)
(* and no reachable state is reachable from itself, on boards with cycles  *)
(* too.                                                                    *)
(***************************************************************************)
Phase(s) ==
  IF s.current_player = "mrx" THEN Len(s.detective_positions)
  ELSE player_index(s.current_player, Len(s.detective_positions))

TurnBefore(s, t) ==
  \/ s.round_number < t.round_number
  \/ s.round_number = t.round_number /\ Phase(s) < Phase(t)

C26_Acyclic ==
  Solved =>
    \A s \in Reach :
      /\ \A c \in Range(_next_states(board, s)) :
           /\ c[2].round_number >= s.round_number
           /\ c[2].round_number =
                s.round_number + (IF s.current_player = "mrx" THEN 1 ELSE 0)
           /\ TurnBefore(s, c[2])
      /\ s \notin ReachFrom(Succ(s), {})

\* a finished solve with detectives in which the actors can come back to
\* their start nodes: a reachable state other than the start has the start's
\* positions and actor
C26_Witness ==
  /\ Solved
  /\ Len(start.detective_positions) >= 1
  /\ \E t \in Reach :
       /\ t # start
       /\ t.mrx_position = start.mrx_position
       /\ t.detective_positions = start.detective_positions
       /\ t.current_player = start.current_player

(***************************************************************************)
(* C27  Mr. X cannot stay in place.  In every successor _next_states gives *)
(* for a state in which Mr. X is to move, and after every move of Mr. X    *)
(* in the engine, Mr. X's node differs from the node he was on before the  *)
(* move, for every board built from an edge list.                          *)
(* Board.__init__ enters the edge (u, u) like any other, so that on a      *)
(* board built from such an edge list u is a neighbour of itself and a     *)
(* move of Mr. X from u to u is legal.                                     *)
(***************************************************************************)
\* the node Mr. X starts the game on
MrxStart ==
  IF argv.policy_file # <<>> THEN argv.policy_file[1].mrx_start ELSE argv.mrx

C27_MrxCannotStay ==
  /\ (Calling /\ Callee.current_player = "mrx") =>
       \A c \in Range(_next_states(board, Callee)) :
         c[2].mrx_position # Callee.mrx_position
  /\ pc \in {"play", "KeyError", "AssertionError"} =>
       \A i \in 1..Len(state.mrx_history) :
         state.mrx_history[i] #
           (IF i = 1 THEN MrxStart ELSE state.mrx_history[i - 1])

(***************************************************************************)
(* C28  In live play round_number is advanced only when Mr. X completes a  *)
(* move.  Every call of step that changes round_number (by one) also moves *)
(* Mr. X to a valid destination and appends it to mrx_history; after every *)
(* call len(mrx_history) is round_number (the game starts at round 0);     *)
(* steps of detectives and steps on a finished game never change           *)
(* round_number.                                                           *)
(* _step_mrx adds 1 to round_number before it calls choose_move, and a     *)
(* choose_move of a strict policy strategy that raises KeyError leaves the *)
(* round advanced with Mr. X where he was and nothing appended.            *)
(***************************************************************************)
C28_HistoryCountsRounds ==
  pc \in {"play", "KeyError", "AssertionError"} =>
    Len(state.mrx_history) = state.round_number

C28_RoundChange ==
  (pc = "play" /\ state'.round_number # state.round_number) =>
    /\ state.current_player = "mrx"
    /\ ~state.game_over
    /\ state'.round_number = state.round_number + 1
    /\ state'.mrx_position \in
         Range(get_valid_moves(board, state.mrx_position,
                               state.detective_positions))
    /\ state'.mrx_history = Append(state.mrx_history, state'.mrx_position)

C28_RoundOnlyWithMove ==
  [] C28_HistoryCountsRounds /\ [][C28_RoundChange]_vars

(***************************************************************************)
(* C29  The engine refines the solver's transition model.  With the live   *)
(* state projected by from_game_state to round_number, current_player,     *)
(* mrx_position and detective_positions, every call of step that returns   *)
(* after a move of a strategy is a transition _next_states lists for the   *)
(* projected state, taken from a state that is not terminal, and a call    *)
(* that makes no move leaves the projection as it is.  After every call    *)
(* game_over is set exactly when _is_terminal holds for the projected      *)
(* state, and then mrx_caught is the negation of the solver's mrx_wins.    *)
(***************************************************************************)
C29_StepRefines ==
  (pc = "play" /\ pc' = "play" /\ state' # state) =>
    LET s == from_game_state(state)
        t == from_game_state(state')
    IN /\ t # s =>
            /\ ~Terminal(s)
            /\ \E c \in Range(_next_states(board, s)) :
                 /\ c[2] = t
                 /\ c[1] = (IF s.current_player = "mrx" THEN t.mrx_position
                            ELSE t.detective_positions[Phase(s) + 1])
       /\ t = s => Terminal(s)
       /\ state'.max_rounds = state.max_rounds
       /\ state'.game_over <=> _is_terminal(board, t, state.max_rounds)[1]
       /\ state'.game_over =>
            (state'.mrx_caught <=> ~_is_terminal(board, t, state.max_rounds)[2])
       /\ ~state'.game_over => ~state'.mrx_caught

C29_EngineRefinesSolver == [][C29_StepRefines]_vars

\* a game of two detectives that ended in round 2 or later with Mr. X caught
\* by a detective's move
C29_Witness ==
  /\ pc = "play"
  /\ state.game_over
  /\ state.mrx_caught
  /\ state.round_number >= 2
  /\ Len(state.detective_positions) = 2
  /\ state.mrx_position \in Range(state.detective_positions)

(***************************************************************************)
(* C30  Detectives never come to share a node.  main starts the solve and  *)
(* the game only from detective positions that are pairwise distinct, and  *)
(* then every state the recursion is called on, every successor of the     *)
(* activation on top, every state a finished solve has evaluated and       *)
(* every state of the game in play has pairwise distinct detective         *)
(* positions.                                                              *)
(***************************************************************************)
Distinct(seq) == Cardinality(Range(seq)) = Len(seq)

C30_DetectivesDistinct ==
  /\ pc \in {"solve", "done", "play", "KeyError", "AssertionError"} =>
       Distinct(state.detective_positions)
  /\ Calling => Distinct(Callee.detective_positions)
  /\ Solved => \A s \in DOMAIN memo : Distinct(s.detective_positions)
  /\ (pc = "solve" /\ stack # <<>>) =>
       \A k \in 1..Len(Top.children) :
         Distinct(Top.children[k][2].detective_positions)

\* a game of two detectives in play in which both detectives have had their
\* turn and now stand on neighbouring nodes, each a destination the other
\* could not take
C30_Witness ==
  /\ pc = "play"
  /\ ~state.game_over
  /\ state.round_number >= 1
  /\ state.current_player = "mrx"
  /\ Len(state.detective_positions) = 2
  /\ state.detective_positions[2] \in neighbors(board, state.detective_positions[1])

(***************************************************************************)
(* C31  Capture happens only through a detective's move.  main starts the  *)
(* solve and the game with Mr. X on no detective's node, and then no move  *)
(* of Mr. X puts him on a detective's node: in every reachable state in    *)
(* which detective 0 is to move Mr. X's node is not among the detective    *)
(* positions, and every reachable state in which it is among them is the   *)
(* successor of states in which a detective was to move and Mr. X was on   *)
(* no detective's node, by that detective's move onto Mr. X's node.  In    *)
(* the engine a step of Mr. X never ends on a detective's node, and the    *)
(* step that brings Mr. X and a detective together is the step of that     *)
(* detective onto Mr. X's node.                                            *)
(***************************************************************************)
Captured(s) == s.mrx_position \in Range(s.detective_positions)

C31_SolverCapture ==
  Solved =>
    /\ ~Captured(start)
    /\ \A s \in Reach :
         /\ s.current_player = "detective_0" => ~Captured(s)
         /\ (~Terminal(s) /\ s.current_player = "mrx") =>
              \A t \in Succ(s) : ~Captured(t)
         /\ Captured(s) =>
              /\ \E p \in Reach : ~Terminal(p) /\ s \in Succ(p)
              /\ \A p \in Reach :
                   (~Terminal(p) /\ s \in Succ(p)) =>
                     /\ p.current_player # "mrx"
                     /\ ~Captured(p)
                     /\ s.detective_positions[Phase(p) + 1] = s.mrx_position

C31_EngineState ==
  (pc = "play" /\ state.current_player = "detective_0") => ~Captured(state)

C31_EngineStep ==
  (pc = "play" /\ pc' = "play" /\ state' # state) =>
    /\ ~Captured(state)
    /\ state.current_player = "mrx" => ~Captured(state')
    /\ Captured(state') =>
         /\ state.current_player # "mrx"
         /\ state'.mrx_position = state.mrx_position
         /\ state'.detective_positions[Phase(state) + 1] = state.mrx_position

C31_CaptureByDetective ==
  [] C31_SolverCapture /\ [] C31_EngineState /\ [][C31_EngineStep]_vars

\* a finished solve that reached a state in which detective 0 has moved onto
\* Mr. X's node and one in which detective 1 has, and a state in which
\* Mr. X is to move, not trapped, next to a detective
C31_Witness ==
  /\ Solved
  /\ \E s \in Reach : Captured(s) /\ s.current_player = "detective_1"
  /\ \E s \in Reach : Captured(s) /\ s.current_player = "mrx"
                        /\ Len(s.detective_positions) = 2
  /\ \E s \in Reach :
       /\ ~Terminal(s) /\ s.current_player = "mrx"
       /\ neighbors(board, s.mrx_position) \cap Range(s.detective_positions) # {}

(***************************************************************************)
(* C32  round_number never exceeds max_rounds.  For a start with           *)
(* round_number <= max_rounds (main starts at round 0, so max_rounds >= 0) *)
(* every state the recursion is called on, every state a finished solve    *)
(* has evaluated and every live state of the engine has round_number <=    *)
(* max_rounds: a move of Mr. X is taken only from a state with Mr. X to    *)
(* move that is not terminal, and such a state has round_number <          *)
(* max_rounds.                                                             *)
(***************************************************************************)
C32_SolverRounds ==
  (pc \in {"solve", "done"} /\ start.round_number <= state.max_rounds) =>
    /\ Calling => Callee.round_number <= state.max_rounds
    /\ (pc = "solve" /\ stack # <<>>) =>
         /\ Top.state.round_number <= state.max_rounds
         /\ Top.state.current_player = "mrx"
              => Top.state.round_number < state.max_rounds
    /\ Solved => \A s \in DOMAIN memo : s.round_number <= state.max_rounds

C32_EngineRounds ==
  (pc \in {"play", "KeyError", "AssertionError"} /\ state.max_rounds >= 0) =>
    state.round_number <= state.max_rounds

C32_EngineStep ==
  (pc = "play" /\ state.max_rounds >= 0
     /\ state'.round_number # state.round_number) =>
    /\ state.current_player = "mrx"
    /\ state.round_number < state.max_rounds
    /\ ~_is_terminal(board, from_game_state(state), state.max_rounds)[1]

C32_RoundsCapped ==
  [] C32_SolverRounds /\ [] C32_EngineRounds /\ [][C32_EngineStep]_vars

\* a game with detectives that Mr. X survived to round max_rounds >= 2,
\* after a solve that evaluated more than ten states
C32_Witness ==
  /\ pc = "play"
  /\ state.game_over
  /\ ~state.mrx_caught
  /\ state.max_rounds >= 2
  /\ state.round_number = state.max_rounds
  /\ Len(state.detective_positions) >= 1
  /\ result.states_evaluated > 10

(***************************************************************************)
(* C33  Live games always end.  For every board, every start and every     *)
(* choice of strategies that return a member of valid_moves, play_game     *)
(* reaches game_over = True, after at most max_rounds - initial            *)
(* round_number (here max_rounds - 0) moves of Mr. X; it never loops       *)
(* forever, with no detectives and with stuck detectives too.              *)
(* A game main starts with --max-rounds -1 (see C7) is over at the first   *)
(* call of step, after no move of Mr. X: more than max_rounds moves.       *)
(***************************************************************************)
C33_MoveBound ==
  pc = "play" => Len(state.mrx_history) <= state.max_rounds - 0

C33_GamesEnd ==
  (pc = "play") ~> (state.game_over \/ pc \in {"KeyError", "AssertionError"})

C33_LiveGamesEnd == [] C33_MoveBound /\ C33_GamesEnd

(***************************************************************************)
(* C34  A finished game is absorbing.  Once game_over is True, a call of   *)
(* step makes no move and calls no strategy (it returns None; play_round   *)
(* and play_game, which only call step while game_over is False, return):  *)
(* the positions, round_number, current_player, mrx_history, game_over     *)
(* and mrx_caught stay as they are, and so would they if _check_game_over  *)
(* were run again.                                                         *)
(***************************************************************************)
C34_Finished ==
  (pc = "play" /\ state.game_over) =>
    /\ ~Stepping
    /\ ~ENABLED Step
    /\ _check_game_over(board, state) = state

C34_Frozen ==
  (pc = "play" /\ state.game_over) =>
    /\ pc' = "play"
    /\ state' = state
    /\ lookup' = lookup
    /\ mrx_strategy' = mrx_strategy

C34_Absorbing == [] C34_Finished /\ [][C34_Frozen]_vars

\* a game with detectives that ended with Mr. X caught in round 2 or later
\* and Mr. X's last lookup a hit
C34_Witness ==
  /\ pc = "play"
  /\ state.game_over
  /\ state.mrx_caught
  /\ state.round_number >= 2
  /\ Len(state.detective_positions) >= 1
  /\ lookup = "hit"

(***************************************************************************)
(* C35  The outcome flags are consistent in every live state.  mrx_caught  *)
(* = True implies game_over = True; game_over with mrx_caught = True       *)
(* holds only when Mr. X's node is a detective's node, or Mr. X is to move *)
(* with no valid move and round_number < max_rounds; game_over with        *)
(* mrx_caught = False holds only when Mr. X is to move, round_number >=    *)
(* max_rounds and Mr. X's node is no detective's node.                     *)
(***************************************************************************)
C35_OutcomeFlags ==
  pc \in {"solve", "done", "play", "KeyError", "AssertionError"} =>
    /\ state.mrx_caught => state.game_over
    /\ (state.game_over /\ state.mrx_caught) =>
         \/ state.mrx_position \in Range(state.detective_positions)
         \/ /\ state.current_player = "mrx"
            /\ get_valid_moves(board, state.mrx_position,
                               state.detective_positions) = <<>>
            /\ state.round_number < state.max_rounds
    /\ (state.game_over /\ ~state.mrx_caught) =>
         /\ state.current_player = "mrx"
         /\ state.round_number >= state.max_rounds
         /\ state.mrx_position \notin Range(state.detective_positions)

\* a game that ended in round 1 or later with Mr. X trapped: on a node with
\* neighbours, on no detective's node, without a valid move
C35_Witness ==
  /\ pc = "play"
  /\ state.game_over
  /\ state.mrx_caught
  /\ state.round_number >= 1
  /\ state.mrx_position \notin Range(state.detective_positions)
  /\ neighbors(board, state.mrx_position) # {}

(***************************************************************************)
(* C36  An inconsistent move is never applied.  When a strategy returns a  *)
(* move that is not among the valid moves, the turn ends with the          *)
(* AssertionError of lines 130 and 159: Mr. X's position, the detective    *)
(* positions, mrx_history, current_player, game_over and mrx_caught are    *)
(* after the failed turn what they were before it, the observer on_move    *)
(* is not called, and the game is not continued.  A move that is applied   *)
(* is one of the valid moves (or the stay of a detective that has none),   *)
(* and the observer is called once for it.                                 *)
(***************************************************************************)
\* the valid moves of the player to move in the live state gs
CurrentValid(gs) ==
  IF gs.current_player = "mrx"
  THEN get_valid_moves(board, gs.mrx_position, gs.detective_positions)
  ELSE LET n == Len(gs.detective_positions)
           idx == player_index(gs.current_player, n)
       IN get_valid_moves(board, gs.detective_positions[idx + 1],
                          [k \in 1..(n - 1) |->
                             gs.detective_positions[IF k <= idx THEN k ELSE k + 1]])

C36_FailedTurn ==
  (pc = "play" /\ pc' = "AssertionError") =>
    /\ state'.mrx_position = state.mrx_position
    /\ state'.detective_positions = state.detective_positions
    /\ state'.mrx_history = state.mrx_history
    /\ state'.current_player = state.current_player
    /\ state'.game_over = state.game_over
    /\ state'.mrx_caught = state.mrx_caught
    /\ on_move_calls' = on_move_calls

C36_AppliedMove ==
  (pc = "play" /\ pc' = "play" /\ on_move_calls' # on_move_calls) =>
    /\ on_move_calls' = on_move_calls + 1
    /\ IF state.current_player = "mrx"
       THEN /\ state'.mrx_position \in Range(CurrentValid(state))
            /\ state'.detective_positions = state.detective_positions
       ELSE LET k == Phase(state)
                valid == CurrentValid(state)
            IN /\ state'.detective_positions[k + 1] \in
                    (IF valid = <<>> THEN {state.detective_positions[k + 1]}
                     ELSE Range(valid))
               /\ state'.mrx_position = state.mrx_position

C36_Aborted ==
  pc = "AssertionError" => pc' = "AssertionError" /\ state' = state

C36_OnBoard ==
  pc \in {"play", "KeyError", "AssertionError"} =>
    /\ has_node(board, state.mrx_position)
    /\ \A i \in 1..Len(state.detective_positions) :
         has_node(board, state.detective_positions[i])

C36_InconsistentMove ==
  /\ [] C36_OnBoard
  /\ [][C36_FailedTurn]_vars
  /\ [][C36_AppliedMove]_vars
  /\ [][C36_Aborted]_vars

\* a game of HumanStrategy players in which, after three moves or more,
\* a detective with valid moves returned a move that is not one of them
C36_Witness ==
  /\ pc = "AssertionError"
  /\ state.current_player # "mrx"
  /\ on_move_calls >= 3
  /\ CurrentValid(state) # <<>>

=============================================================================
